---- MODULE Spec2Model ----
\* Quest lifecycle, favorites and reports of the case-study application:
\* the relational store (drizzle/schema.d1.sql), the data-access layer
\* (server/db.ts), the quest pages (client) and the RPC procedures that sit
\* between them (server/routers, described in spec.md sections 4.2 and 4.3).
EXTENDS Bags, Integers, FiniteSets, Sequences, TLC

\* ---------------------------------------------------------------- bounds
NumUsers == 2
\* rows of the tables (all of them together) plus requests in flight
MaxRows == 3
\* calls of data-access operations in flight
MaxCalls == 2
\* instants of the clock
MaxTime == 2

\* ------------------------------------------------------------- constants
\* A nullable integer column (solved_answer_id, solver_user_id, closed_at)
\* holding SQL NULL; row ids start at 1 (autoincrement).
NULL == 0

\* the JavaScript value null of a module variable
null == "null"

\* drizzle(d1): the handle built over a binding, which runs its queries
\* against that binding
drizzle(d1) == CASE d1 = "D1" -> "drizzle(D1)" [] d1 = "D2" -> "drizzle(D2)"

\* the binding a handle was built over
client(db) == CASE db = "drizzle(D1)" -> "D1" [] db = "drizzle(D2)" -> "D2"

Users == 1 .. NumUsers

\* type QuestClosedStatus = "finished" | "suspended" | "unsolved"
QuestClosedStatus == {"finished", "suspended", "unsolved"}
\* What a close request may carry as outcome: one of the three, or nothing
\* (the two-state quest page sends { questId } only).
NoOutcome == "none"
Outcomes == QuestClosedStatus \cup {NoOutcome}

VARIABLES
  quests,        \* table quests: sequence of rows, row i has id i
  questAnswers,  \* table quest_answers: sequence of rows, row i has id i
  caseStudies,   \* table case_studies: sequence of rows, row i has id i
  favorites,     \* table favorites: a bag of rows (user_id, case_study_id)
  reports,       \* table reports: a bag of rows (user_id, case_study_id)
  rpc,           \* requests in flight between two awaits: a bag of requests
  lastResponse,  \* the response of the request that completed last
  users,         \* table users: sequence of rows, row i has id i
  clock,         \* Date.now() and unixepoch() * 1000: the instant it is
  env,           \* what readEnv reads: the environment of the process
  userProfile,   \* the page UserProfile: its userId, its viewer, its name
  _db,                    \* let _db: the drizzle handle, or null
  _dbBinding,             \* let _dbBinding: the D1 binding, or null
  _avatarColumnEnsured,   \* let _avatarColumnEnsured
  _reportsTableEnsured,   \* let _reportsTableEnsured
  _questTablesEnsured,    \* let _questTablesEnsured
  attempts       \* how often the statements of each migration were started

questVars == <<quests, questAnswers>>
caseVars == <<caseStudies, favorites, reports>>
dbVars == <<_db, _dbBinding, _avatarColumnEnsured, _reportsTableEnsured,
            _questTablesEnsured, attempts>>
vars == <<quests, questAnswers, caseStudies, favorites, reports, rpc,
          lastResponse, users, clock, env, userProfile, dbVars>>

NoResponse == [op |-> "none", result |-> "none"]

\* How a procedure refuses a request (spec.md section 7): malformed input,
\* refused before the store is touched; no such row; the caller may not; the
\* request does not fit the state of the row.
ErrorResults == {"INVALID_INPUT", "NOT_FOUND", "FORBIDDEN", "BAD_REQUEST"}

\* the three migrations of getDb
Migrations == {"ensureAvatarColumn", "ensureReportsTable", "ensureQuestTables"}

\* An environment that sets neither OWNER_OPEN_IDS nor OWNER_OPEN_ID.
\* The value of OWNER_OPEN_IDS is held cut at its commas, as the sequence of
\* the items between them: the empty string is one empty item.
NoEnv == [OWNER_OPEN_IDS |-> <<"">>, OWNER_OPEN_ID |-> ""]

\* no profile page is open
NoProfile == [userId |-> 0, viewer |-> 0, name |-> ""]

\* the tables are empty and no request is in flight
InitTables ==
  /\ quests = << >>
  /\ questAnswers = << >>
  /\ caseStudies = << >>
  /\ favorites = EmptyBag
  /\ reports = EmptyBag
  /\ users = << >>
  /\ rpc = EmptyBag
  /\ lastResponse = NoResponse
  /\ clock = 1

\* The store is available: initDb has been given the binding and getDb has
\* run its migrations.
Init ==
  /\ InitTables
  /\ _db = drizzle("D1")
  /\ _dbBinding = "D1"
  /\ _avatarColumnEnsured = TRUE
  /\ _reportsTableEnsured = TRUE
  /\ _questTablesEnsured = TRUE
  /\ attempts = [m \in Migrations |-> 1]
  /\ env = NoEnv
  /\ userProfile = NoProfile

\* The module has been loaded: initDb has not been called.
InitModule ==
  /\ InitTables
  /\ _db = null
  /\ _dbBinding = null
  /\ _avatarColumnEnsured = FALSE
  /\ _reportsTableEnsured = FALSE
  /\ _questTablesEnsured = FALSE
  /\ attempts = [m \in Migrations |-> 0]
  /\ env = NoEnv
  /\ userProfile = NoProfile

Min(a, b) == IF a < b THEN a ELSE b
SetMax(S) == IF S = {} THEN 0 ELSE CHOOSE x \in S : \A y \in S : y <= x

\* ------------------------------------------------------ data-access layer
NoRow == [id |-> NULL]

\* Date.now(), and unixepoch() * 1000 of a column default
now == clock

\* ORDER BY created_at: the rows by created_at ascending, rows of one
\* created_at in the order of their ids
orderBy_createdAt(rows) ==
  LET rank(i) == Cardinality({j \in DOMAIN rows :
                    \/ rows[j].createdAt < rows[i].createdAt
                    \/ rows[j].createdAt = rows[i].createdAt /\ j < i}) + 1
  IN  [k \in DOMAIN rows |-> rows[CHOOSE i \in DOMAIN rows : rank(i) = k]]

\* ORDER BY created_at DESC
orderBy_desc_createdAt(rows) ==
  LET rank(i) == Cardinality({j \in DOMAIN rows :
                    \/ rows[j].createdAt > rows[i].createdAt
                    \/ rows[j].createdAt = rows[i].createdAt /\ j < i}) + 1
  IN  [k \in DOMAIN rows |-> rows[CHOOSE i \in DOMAIN rows : rank(i) = k]]

\* getQuestById without its WHERE clause: the first row of the table
getQuestByIdFirstRow(id) ==
  IF Len(quests) = 0 THEN NoRow ELSE quests[1]

\* getQuestById selecting as createQuest does after its insert: the latest row
getQuestByIdLatestRow(id) ==
  IF Len(quests) = 0 THEN NoRow ELSE quests[Len(quests)]

\* SELECT ... FROM quests WHERE id = ? LIMIT 1
getQuestById(id) ==
  IF \E i \in DOMAIN quests : quests[i].id = id
  THEN quests[CHOOSE i \in DOMAIN quests : quests[i].id = id]
  ELSE NoRow

\* getQuestAnswerById without its WHERE clause: the first row of the table
getQuestAnswerByIdFirstRow(id) ==
  IF Len(questAnswers) = 0 THEN NoRow ELSE questAnswers[1]

\* getQuestAnswerById ordered by id, descending, without the WHERE clause
getQuestAnswerByIdLatestRow(id) ==
  IF Len(questAnswers) = 0 THEN NoRow ELSE questAnswers[Len(questAnswers)]

\* SELECT ... FROM quest_answers WHERE id = ? LIMIT 1
getQuestAnswerById(id) ==
  IF \E i \in DOMAIN questAnswers : questAnswers[i].id = id
  THEN questAnswers[CHOOSE i \in DOMAIN questAnswers : questAnswers[i].id = id]
  ELSE NoRow

\* getQuestAnswers without its orderBy: the rows in the order of their ids
getQuestAnswersWithoutOrderBy(questId) ==
  SelectSeq(questAnswers, LAMBDA row : row.questId = questId)

\* SELECT ... FROM quest_answers WHERE quest_id = ? ORDER BY created_at (the
\* author's name and avatar are left out)
getQuestAnswers(questId) ==
  orderBy_createdAt(
    SelectSeq(questAnswers, LAMBDA row : row.questId = questId))

\* SELECT ... FROM quests ORDER BY created_at DESC, and the answers counted
\* for each quest (the author's name and avatar are left out)
getAllQuests ==
  LET questsResult == orderBy_desc_createdAt(quests)
      answerCount(id) ==
        Len(SelectSeq(questAnswers, LAMBDA row : row.questId = id))
  IN  [k \in DOMAIN questsResult |->
        [id |-> questsResult[k].id, userId |-> questsResult[k].userId,
         status |-> questsResult[k].status,
         createdAt |-> questsResult[k].createdAt,
         answerCount |-> answerCount(questsResult[k].id)]]

\* INSERT INTO quests: status defaults to 'open', the nullable columns to
\* NULL, created_at to the instant of the insert
createQuest(data) ==
  quests' = Append(quests,
    [id |-> Len(quests) + 1, userId |-> data.userId, status |-> "open",
     solvedAnswerId |-> NULL, solverUserId |-> NULL, closedAt |-> NULL,
     createdAt |-> now])

\* createQuestAnswer with INSERT OR REPLACE under the id of the latest row
createQuestAnswerInsertOrReplace(data) ==
  questAnswers' =
    IF questAnswers = << >>
    THEN <<[id |-> 1, questId |-> data.questId, userId |-> data.userId,
            content |-> data.content, createdAt |-> now]>>
    ELSE [questAnswers EXCEPT ![Len(questAnswers)] =
           [id |-> Len(questAnswers), questId |-> data.questId,
            userId |-> data.userId, content |-> data.content,
            createdAt |-> now]]

\* INSERT INTO quest_answers: created_at is the instant of the insert
createQuestAnswer(data) ==
  questAnswers' = Append(questAnswers,
    [id |-> Len(questAnswers) + 1, questId |-> data.questId,
     userId |-> data.userId, content |-> data.content, createdAt |-> now])

\* closeQuest whose SET list leaves closed_at out
closeQuestWithoutClosedAt(id, data) ==
  quests' = [i \in DOMAIN quests |->
    IF quests[i].id = id
    THEN [quests[i] EXCEPT !.status = data.status,
                           !.solvedAnswerId = data.solvedAnswerId,
                           !.solverUserId = data.solverUserId]
    ELSE quests[i]]

\* closeQuest whose SET list leaves solver_user_id out
closeQuestWithoutSolverUserId(id, data) ==
  quests' = [i \in DOMAIN quests |->
    IF quests[i].id = id
    THEN [quests[i] EXCEPT !.status = data.status,
                           !.solvedAnswerId = data.solvedAnswerId,
                           !.closedAt = now]
    ELSE quests[i]]

\* UPDATE quests SET status, solved_answer_id, solver_user_id, closed_at
\* WHERE id = ?
closeQuest(id, data) ==
  quests' = [i \in DOMAIN quests |->
    IF quests[i].id = id
    THEN [quests[i] EXCEPT !.status = data.status,
                           !.solvedAnswerId = data.solvedAnswerId,
                           !.solverUserId = data.solverUserId,
                           !.closedAt = now]
    ELSE quests[i]]

\* getAllCaseStudies with every report counted for every case study
getAllCaseStudiesCountingAll ==
  LET IsRow(row) == row.id # NULL
      casesResult == orderBy_createdAt(SelectSeq(caseStudies, IsRow))
  IN  [k \in DOMAIN casesResult |->
        [id |-> casesResult[k].id, userId |-> casesResult[k].userId,
         title |-> casesResult[k].title,
         createdAt |-> casesResult[k].createdAt,
         updatedAt |-> casesResult[k].updatedAt,
         reportCount |-> BagCardinality(reports)]]

\* SELECT ... FROM case_studies ORDER BY created_at, and the reports counted
\* for each case study (the author's name and avatar are left out)
getAllCaseStudies ==
  LET IsRow(row) == row.id # NULL
      casesResult == orderBy_createdAt(SelectSeq(caseStudies, IsRow))
      reportCount(id) ==
        BagCardinality([row \in {x \in BagToSet(reports) : x.caseStudyId = id}
                          |-> reports[row]])
  IN  [k \in DOMAIN casesResult |->
        [id |-> casesResult[k].id, userId |-> casesResult[k].userId,
         title |-> casesResult[k].title,
         createdAt |-> casesResult[k].createdAt,
         updatedAt |-> casesResult[k].updatedAt,
         reportCount |-> reportCount(casesResult[k].id)]]

\* getCaseStudyById without its where clause: the first row of the table
getCaseStudyByIdFirstRow(id) ==
  IF caseStudies # <<>> THEN caseStudies[1] ELSE NoRow

\* getCaseStudyById ordered by id descending, without its where clause
getCaseStudyByIdLatestRow(id) ==
  IF caseStudies # <<>> THEN caseStudies[Len(caseStudies)] ELSE NoRow

\* SELECT ... FROM case_studies WHERE id = ? LIMIT 1
getCaseStudyById(id) ==
  IF \E i \in DOMAIN caseStudies : caseStudies[i].id = id
  THEN caseStudies[CHOOSE i \in DOMAIN caseStudies : caseStudies[i].id = id]
  ELSE NoRow

\* INSERT INTO case_studies: of the fields that updateCaseStudy may set, the
\* row holds its title and updated_at
createCaseStudy(data) ==
  caseStudies' = Append(caseStudies,
    [id |-> Len(caseStudies) + 1, userId |-> data.userId,
     title |-> data.title, createdAt |-> now, updatedAt |-> now])

\* a field that the data of an update leaves out
undefined == "undefined"

\* updateCaseStudy without its where clause: every row is updated
updateCaseStudyWithoutWhere(id, data) ==
  caseStudies' = [i \in DOMAIN caseStudies |->
    [caseStudies[i] EXCEPT
       !.updatedAt = now,
       !.title = IF data.title # undefined THEN data.title ELSE @]]

\* UPDATE case_studies SET updated_at = now and every field of data that is
\* not undefined WHERE id = ?; data has no userId
updateCaseStudy(id, data) ==
  caseStudies' = [i \in DOMAIN caseStudies |->
    IF caseStudies[i].id = id
    THEN [caseStudies[i] EXCEPT
            !.updatedAt = now,
            !.title = IF data.title # undefined THEN data.title ELSE @]
    ELSE caseStudies[i]]

\* a row of favorites or of reports, without its id and created_at
PairRow(userId, caseStudyId) ==
  [userId |-> userId, caseStudyId |-> caseStudyId]

\* case_study_id integer not null references case_studies(id): the insert
\* of a row fails unless its case study exists
case_study_id_references(row) ==
  \E i \in DOMAIN caseStudies : caseStudies[i].id = row.caseStudyId

\* favorites without its unique index
favorites_without_unique_index(row) == FALSE

\* CREATE UNIQUE INDEX favorites_user_case_unique
\*   ON favorites(user_id, case_study_id): the insert of a row fails when the
\* table holds a row of the same user and case study
favorites_user_case_unique(row) == BagIn(row, favorites)

\* CREATE UNIQUE INDEX reports_user_case_unique
\*   ON reports(user_id, case_study_id)
reports_user_case_unique(row) == BagIn(row, reports)

\* DELETE FROM table WHERE user_id = ? AND case_study_id = ?
DeleteRows(table, row) ==
  IF BagIn(row, table)
  THEN table (-) [x \in {row} |-> CopiesIn(row, table)]
  ELSE table

\* isFavorite returning result.length > 1
isFavoriteMoreThanOne(userId, caseStudyId) ==
  LET result == Min(CopiesIn(PairRow(userId, caseStudyId), favorites), 1)
  IN  result > 1

\* SELECT ... FROM favorites WHERE user_id = ? AND case_study_id = ? LIMIT 1;
\* return result.length > 0
isFavorite(userId, caseStudyId) ==
  LET result == Min(CopiesIn(PairRow(userId, caseStudyId), favorites), 1)
  IN  result > 0

\* addFavorite without its try and catch: the failed insert throws
addFavoriteWithoutCatch(userId, caseStudyId) ==
  LET row == PairRow(userId, caseStudyId) IN
  IF favorites_user_case_unique(row) \/ ~case_study_id_references(row)
  THEN [favorites |-> favorites, returns |-> FALSE, throws |-> TRUE]
  ELSE [favorites |-> favorites (+) SetToBag({row}), returns |-> TRUE,
        throws |-> FALSE]

\* try { INSERT INTO favorites; return true } catch { return false }:
\* the table after the call, what the call returns, whether it throws
addFavorite(userId, caseStudyId) ==
  LET row == PairRow(userId, caseStudyId) IN
  IF favorites_user_case_unique(row) \/ ~case_study_id_references(row)
  THEN [favorites |-> favorites, returns |-> FALSE, throws |-> FALSE]
  ELSE [favorites |-> favorites (+) SetToBag({row}), returns |-> TRUE,
        throws |-> FALSE]

\* DELETE FROM favorites WHERE user_id = ? AND case_study_id = ?; return true
removeFavorite(userId, caseStudyId) ==
  [favorites |-> DeleteRows(favorites, PairRow(userId, caseStudyId)),
   returns |-> TRUE, throws |-> FALSE]

\* createReport without its try and catch: the failed insert throws
createReportWithoutCatch(data) ==
  LET row == PairRow(data.userId, data.caseStudyId) IN
  IF reports_user_case_unique(row) \/ ~case_study_id_references(row)
  THEN [reports |-> reports, created |-> FALSE, throws |-> TRUE]
  ELSE [reports |-> reports (+) SetToBag({row}), created |-> TRUE,
        throws |-> FALSE]

\* try { INSERT INTO reports; return { created: true } }
\* catch { return { created: false } }
createReport(data) ==
  LET row == PairRow(data.userId, data.caseStudyId) IN
  IF reports_user_case_unique(row) \/ ~case_study_id_references(row)
  THEN [reports |-> reports, created |-> FALSE, throws |-> FALSE]
  ELSE [reports |-> reports (+) SetToBag({row}), created |-> TRUE,
        throws |-> FALSE]

\* a case study row that has been deleted. Its id is not given again
\* (id integer primary key autoincrement), so the row keeps its place.
DeletedRow == [id |-> NULL, userId |-> NULL]

\* DELETE FROM table WHERE case_study_id = ?
DeleteWhereCaseStudyId(table, id) ==
  LET kept == {row \in BagToSet(table) : row.caseStudyId # id} IN
  IF kept = BagToSet(table) THEN table
  ELSE IF kept = {} THEN EmptyBag
  ELSE [row \in kept |-> table[row]]

\* a reference to case_studies(id) without on delete cascade
case_study_id_no_action(table, id) == table

\* case_study_id ... references case_studies(id) on delete cascade: the rows
\* of favorites or reports that go with the deleted case study
case_study_id_on_delete_cascade(table, id) ==
  DeleteWhereCaseStudyId(table, id)

\* deleteCaseStudy, first statement:
\* await db.delete(favorites).where(eq(favorites.caseStudyId, id))
deleteCaseStudy_favorites(id) ==
  favorites' = DeleteWhereCaseStudyId(favorites, id)

\* deleteCaseStudy, second statement:
\* await db.delete(reports).where(eq(reports.caseStudyId, id))
deleteCaseStudy_reports(id) ==
  reports' = DeleteWhereCaseStudyId(reports, id)

\* deleteCaseStudy, third statement:
\* await db.delete(caseStudies).where(eq(caseStudies.id, id)); return true
deleteCaseStudy_caseStudies(id) ==
  /\ caseStudies' = [i \in DOMAIN caseStudies |->
       IF caseStudies[i].id = id THEN DeletedRow ELSE caseStudies[i]]
  /\ favorites' = case_study_id_on_delete_cascade(favorites, id)
  /\ reports' = case_study_id_on_delete_cascade(reports, id)

\* ------------------------------------------------------------------ users
\* readEnv(key): the value of the key in the environment
readEnv(key) == env[key]

\* String.prototype.trim on the strings of the model: blanks at both ends
\* are removed
trim(item) ==
  CASE item = " " -> ""
    [] item = " a" -> "a"
    [] item = "b " -> "b"
    [] item = " name" -> "name"
    [] OTHER -> item

\* parseCsvList(value): the items between the commas, trimmed, without the
\* empty ones
parseCsvList(value) ==
  LET items == [i \in DOMAIN value |-> trim(value[i])]
  IN  SelectSeq(items, LAMBDA item : item # "")

\* ENV.ownerOpenIds: the list of OWNER_OPEN_IDS, or OWNER_OPEN_ID alone when
\* that list is empty
ownerOpenIds ==
  LET fromList == parseCsvList(readEnv("OWNER_OPEN_IDS"))
      single == trim(readEnv("OWNER_OPEN_ID"))
  IN  IF Len(fromList) > 0 THEN fromList
      ELSE IF single # "" THEN <<single>> ELSE << >>

\* ENV.ownerOpenId
ownerOpenId == readEnv("OWNER_OPEN_ID")

\* Array.prototype.includes
includes(list, x) == \E i \in DOMAIN list : list[i] = x

\* The text fields upsertUser copies; name and email stand for the four of
\* them (name, email, avatarUrl, loginMethod), which are treated alike.
textFields == {"name", "email"}

\* the fields of f in S
Pick(f, S) == [k \in S \cap DOMAIN f |-> f[k]]

\* { ...f, ...g }
Assign(f, g) ==
  [k \in DOMAIN f \cup DOMAIN g |-> IF k \in DOMAIN g THEN g[k] ELSE f[k]]

OpenIdRequired == "Error: User openId is required for upsert"

\* the row of users with the openId, or 0
UserByOpenId(openId) ==
  IF \E i \in DOMAIN users : users[i].openId = openId
  THEN CHOOSE i \in DOMAIN users : users[i].openId = openId
  ELSE 0

\* upsertUser with a plain INSERT into a table without the unique index on
\* openId
upsertUserWithoutOnConflict(user) ==
  IF user.openId = "" THEN [throws |-> OpenIdRequired, users |-> users]
  ELSE IF _db = null THEN [throws |-> "none", users |-> users]
  ELSE
    LET role == IF "role" \in DOMAIN user THEN [role |-> user.role]
                ELSE IF includes(ownerOpenIds, user.openId)
                     THEN [role |-> "admin"] ELSE << >>
        values == Assign(Assign([lastSignedIn |-> now],
                    Pick(user, {"openId", "lastSignedIn"} \cup textFields)),
                    role)
        defaults == [id |-> Len(users) + 1, name |-> null, email |-> null,
                     role |-> "user", updatedAt |-> now]
    IN  [throws |-> "none", users |-> Append(users, Assign(defaults, values))]

\* upsertUser without the promotion of the owners
upsertUserWithoutPromotion(user) ==
  IF user.openId = "" THEN [throws |-> OpenIdRequired, users |-> users]
  ELSE IF _db = null THEN [throws |-> "none", users |-> users]
  ELSE
    LET role == IF "role" \in DOMAIN user THEN [role |-> user.role]
                ELSE << >>
        values == Assign(Assign([lastSignedIn |-> now],
                    Pick(user, {"openId", "lastSignedIn"} \cup textFields)),
                    role)
        given == Assign(Pick(user, {"lastSignedIn"} \cup textFields), role)
        updateSet == IF DOMAIN given = {} THEN [lastSignedIn |-> now]
                     ELSE given
        defaults == [id |-> Len(users) + 1, name |-> null, email |-> null,
                     role |-> "user", updatedAt |-> now]
        i == UserByOpenId(user.openId)
    IN  [throws |-> "none",
         users |-> IF i = 0 THEN Append(users, Assign(defaults, values))
                   ELSE [users EXCEPT ![i] = Assign(users[i], updateSet)]]

\* upsertUser that writes role 'user' when no role is given and the openId
\* is not an owner's
upsertUserWithDefaultRole(user) ==
  IF user.openId = "" THEN [throws |-> OpenIdRequired, users |-> users]
  ELSE IF _db = null THEN [throws |-> "none", users |-> users]
  ELSE
    LET role == IF "role" \in DOMAIN user THEN [role |-> user.role]
                ELSE IF includes(ownerOpenIds, user.openId)
                     THEN [role |-> "admin"] ELSE [role |-> "user"]
        values == Assign(Assign([lastSignedIn |-> now],
                    Pick(user, {"openId", "lastSignedIn"} \cup textFields)),
                    role)
        given == Assign(Pick(user, {"lastSignedIn"} \cup textFields), role)
        updateSet == IF DOMAIN given = {} THEN [lastSignedIn |-> now]
                     ELSE given
        defaults == [id |-> Len(users) + 1, name |-> null, email |-> null,
                     role |-> "user", updatedAt |-> now]
        i == UserByOpenId(user.openId)
    IN  [throws |-> "none",
         users |-> IF i = 0 THEN Append(users, Assign(defaults, values))
                   ELSE [users EXCEPT ![i] = Assign(users[i], updateSet)]]

\* upsertUser(user): INSERT INTO users ... ON CONFLICT (openId) DO UPDATE SET
\* the fields given. A field the caller leaves undefined is absent from the
\* record user. The role is the one given, or 'admin' for an owner, or left
\* to the default of the column; lastSignedIn is now unless given.
upsertUser(user) ==
  IF user.openId = "" THEN [throws |-> OpenIdRequired, users |-> users]
  ELSE IF _db = null THEN [throws |-> "none", users |-> users]
  ELSE
    LET role == IF "role" \in DOMAIN user THEN [role |-> user.role]
                ELSE IF includes(ownerOpenIds, user.openId)
                     THEN [role |-> "admin"] ELSE << >>
        values == Assign(Assign([lastSignedIn |-> now],
                    Pick(user, {"openId", "lastSignedIn"} \cup textFields)),
                    role)
        given == Assign(Pick(user, {"lastSignedIn"} \cup textFields), role)
        updateSet == IF DOMAIN given = {} THEN [lastSignedIn |-> now]
                     ELSE given
        defaults == [id |-> Len(users) + 1, name |-> null, email |-> null,
                     role |-> "user", updatedAt |-> now]
        i == UserByOpenId(user.openId)
    IN  [throws |-> "none",
         users |-> IF i = 0 THEN Append(users, Assign(defaults, values))
                   ELSE [users EXCEPT ![i] = Assign(users[i], updateSet)]]

\* updateUserName without its where: every row is updated
updateUserNameWithoutWhere(userId, name) ==
  IF _db = null THEN [returns |-> FALSE, users |-> users]
  ELSE [returns |-> TRUE,
        users |-> [i \in DOMAIN users |->
                    [users[i] EXCEPT !.name = name, !.updatedAt = now]]]

\* updateUserName(userId, name): UPDATE users SET name, updatedAt WHERE id =
\* userId
updateUserName(userId, name) ==
  IF _db = null THEN [returns |-> FALSE, users |-> users]
  ELSE [returns |-> TRUE,
        users |-> [i \in DOMAIN users |->
                    IF users[i].id = userId
                    THEN [users[i] EXCEPT !.name = name, !.updatedAt = now]
                    ELSE users[i]]]

\* ------------------------------------------------------------ RPC layer
InFlight == BagToSet(rpc)
AllIdle == rpc = EmptyBag

Await(r) == rpc' = rpc (+) SetToBag({r})
Finish(r) == rpc' = rpc (-) SetToBag({r})

Respond(op, result) ==
  lastResponse' = [op |-> op, result |-> result]

\* rows that exist, and requests in flight
Load ==
  Len(quests) + Len(questAnswers) + Len(caseStudies)
    + BagCardinality(favorites) + BagCardinality(reports)
    + BagCardinality(rpc)
Accepting == Load < MaxRows

\* quests.create: insert the quest for the caller
QuestsCreate(u) ==
  /\ Accepting
  /\ createQuest([userId |-> u])
  /\ Respond("quests.create", "created")
  /\ UNCHANGED <<questAnswers, rpc, caseVars>>
  /\ UNCHANGED <<users, clock, env, userProfile, dbVars>>

\* The outcome a close request is taken to carry. spec.md does not say what
\* the procedure does with a request that names no outcome (the two-state
\* page sends none): it is refused as malformed, or taken as unsolved, the
\* status that the former closed status stands for.
InputOutcome(outcome) ==
  IF outcome = NoOutcome THEN {NoOutcome, "unsolved"} ELSE {outcome}

\* quests.close, the checks in their order: input validation, the quest
\* exists, the caller is its author, the quest is still open and, for outcome
\* finished, the solved answer exists and belongs to the quest (so the quest
\* has an answer). The result is the refusal, alreadyClosed, or "ok".
CloseChecks(u, q, o, a) ==
  LET quest == getQuestById(q)
      answer == getQuestAnswerById(a) IN
  IF o = NoOutcome THEN "INVALID_INPUT"
  ELSE IF quest = NoRow THEN "NOT_FOUND"
  ELSE IF quest.userId # u THEN "FORBIDDEN"
  ELSE IF quest.status # "open" THEN "alreadyClosed"
  ELSE IF o = "finished" /\ (\/ a = NULL
                             \/ Len(getQuestAnswers(q)) = 0
                             \/ answer = NoRow
                             \/ answer.questId # q) THEN "BAD_REQUEST"
  ELSE "ok"

\* quests.close up to its write: the checks, then the request awaits the
\* write with the solver read from the solved answer, or it is answered
QuestsClose(u, q, outcome, a) ==
  /\ \E o \in InputOutcome(outcome) :
     LET result == CloseChecks(u, q, o, a) IN
     IF result = "ok" THEN
       /\ Await([pc |-> "closeWrite", caller |-> u, id |-> q, outcome |-> o,
                 answerId |-> IF o = "finished" THEN a ELSE NULL,
                 solver |-> IF o = "finished"
                            THEN getQuestAnswerById(a).userId ELSE NULL])
       /\ UNCHANGED lastResponse
     ELSE
       Respond("quests.close", result) /\ UNCHANGED rpc
  /\ UNCHANGED <<quests, questAnswers, caseVars>>
  /\ UNCHANGED <<users, clock, env, userProfile, dbVars>>

\* quests.close: the write
QuestsCloseWrite(r) ==
  /\ r.pc = "closeWrite"
  /\ closeQuest(r.id, [status |-> r.outcome,
                       solvedAnswerId |-> r.answerId,
                       solverUserId |-> r.solver])
  /\ Respond("quests.close", "closed")
  /\ Finish(r)
  /\ UNCHANGED <<questAnswers, caseVars>>
  /\ UNCHANGED <<users, clock, env, userProfile, dbVars>>

\* quests.answer, the checks in their order: the quest exists and is open
AnswerChecks(u, q) ==
  LET quest == getQuestById(q) IN
  IF quest = NoRow THEN "NOT_FOUND"
  ELSE IF quest.status # "open" THEN "BAD_REQUEST"
  ELSE "ok"

\* quests.answer up to its insert
QuestsAnswer(u, q) ==
  /\ Accepting
  /\ LET result == AnswerChecks(u, q) IN
     IF result = "ok" THEN
       /\ Await([pc |-> "answerInsert", caller |-> u, id |-> q,
                 outcome |-> NoOutcome, answerId |-> NULL, solver |-> NULL])
       /\ UNCHANGED lastResponse
     ELSE
       Respond("quests.answer", result) /\ UNCHANGED rpc
  /\ UNCHANGED <<quests, questAnswers, caseVars>>
  /\ UNCHANGED <<users, clock, env, userProfile, dbVars>>

\* quests.answer: the insert
QuestsAnswerInsert(r) ==
  /\ r.pc = "answerInsert"
  /\ createQuestAnswer([questId |-> r.id, userId |-> r.caller,
                        content |-> "content"])
  /\ Respond("quests.answer", "answered")
  /\ Finish(r)
  /\ UNCHANGED <<quests, caseVars>>
  /\ UNCHANGED <<users, clock, env, userProfile, dbVars>>

\* quests.list: the quests as getAllQuests returns them
QuestsList ==
  /\ Respond("quests.list", getAllQuests)
  /\ UNCHANGED <<questVars, caseVars, rpc, users, clock, env, userProfile, dbVars>>

\* caseStudies.list: the case studies as getAllCaseStudies returns them
CaseStudiesList ==
  /\ Respond("caseStudies.list", getAllCaseStudies)
  /\ UNCHANGED <<questVars, caseVars, rpc, users, clock, env, userProfile,
                 dbVars>>

\* quests.getById: the quest with its answers as getQuestAnswers returns
\* them
QuestsGetById(q) ==
  /\ IF getQuestById(q) = NoRow
     THEN Respond("quests.getById", "NOT_FOUND")
     ELSE Respond("quests.getById", getQuestAnswers(q))
  /\ UNCHANGED <<questVars, caseVars, rpc, users, clock, env, userProfile, dbVars>>

\* a request in flight that carries the caller and the id it is about
Request(pc, u, id) ==
  [pc |-> pc, caller |-> u, id |-> id, outcome |-> NoOutcome,
   answerId |-> NULL, solver |-> NULL]

\* an error that a procedure does not handle reaches the caller as this
Thrown == "INTERNAL_SERVER_ERROR"

\* caseStudies.create: insert the case study for the caller
CaseStudiesCreate(u) ==
  /\ Accepting
  /\ createCaseStudy([userId |-> u, title |-> "title"])
  /\ Respond("caseStudies.create", "created")
  /\ UNCHANGED <<questVars, favorites, reports, rpc>>
  /\ UNCHANGED <<users, clock, env, userProfile, dbVars>>

\* caseStudies.toggleFavorite up to its write: the check of the existing
\* row; the row is deleted if present, inserted if absent
ToggleFavorite(u, c) ==
  /\ IF isFavorite(u, c)
     THEN Await(Request("removeFavorite", u, c))
     ELSE Accepting /\ Await(Request("addFavorite", u, c))
  /\ UNCHANGED <<questVars, caseVars, lastResponse>>
  /\ UNCHANGED <<users, clock, env, userProfile, dbVars>>

\* caseStudies.toggleFavorite: the insert, answered isFavorite: true
ToggleFavoriteAdd(r) ==
  /\ r.pc = "addFavorite"
  /\ LET out == addFavorite(r.caller, r.id) IN
     /\ favorites' = out.favorites
     /\ Respond("caseStudies.toggleFavorite",
                IF out.throws THEN Thrown ELSE "isFavorite")
  /\ Finish(r)
  /\ UNCHANGED <<questVars, caseStudies, reports>>
  /\ UNCHANGED <<users, clock, env, userProfile, dbVars>>

\* caseStudies.toggleFavorite: the delete, answered isFavorite: false
ToggleFavoriteRemove(r) ==
  /\ r.pc = "removeFavorite"
  /\ LET out == removeFavorite(r.caller, r.id) IN
     /\ favorites' = out.favorites
     /\ Respond("caseStudies.toggleFavorite",
                IF out.throws THEN Thrown ELSE "notFavorite")
  /\ Finish(r)
  /\ UNCHANGED <<questVars, caseStudies, reports>>
  /\ UNCHANGED <<users, clock, env, userProfile, dbVars>>

\* caseStudies.report, the checks in their order: the case study exists and
\* is not the caller's own
ReportChecks(u, c) ==
  LET caseStudy == getCaseStudyById(c) IN
  IF caseStudy = NoRow THEN "NOT_FOUND"
  ELSE IF caseStudy.userId = u THEN "BAD_REQUEST"
  ELSE "ok"

\* caseStudies.report up to its insert
Report(u, c) ==
  /\ Accepting
  /\ LET result == ReportChecks(u, c) IN
     IF result = "ok" THEN
       Await(Request("createReport", u, c)) /\ UNCHANGED lastResponse
     ELSE
       Respond("caseStudies.report", result) /\ UNCHANGED rpc
  /\ UNCHANGED <<questVars, caseVars>>
  /\ UNCHANGED <<users, clock, env, userProfile, dbVars>>

\* caseStudies.report: the insert; a report that was not created is
\* answered alreadyReported
ReportInsert(r) ==
  /\ r.pc = "createReport"
  /\ LET out == createReport([userId |-> r.caller, caseStudyId |-> r.id]) IN
     /\ reports' = out.reports
     /\ Respond("caseStudies.report",
                IF out.throws THEN Thrown
                ELSE IF out.created THEN "reported" ELSE "alreadyReported")
  /\ Finish(r)
  /\ UNCHANGED <<questVars, caseStudies, favorites>>
  /\ UNCHANGED <<users, clock, env, userProfile, dbVars>>

\* ctx.user.role of the caller
Roles == {"user", "admin"}

\* a delete in flight carries ctx.user: the caller and the caller's role
DeleteRequest(pc, u, role, id) ==
  [pc |-> pc, caller |-> u, role |-> role, id |-> id, outcome |-> NoOutcome,
   answerId |-> NULL, solver |-> NULL]

\* the request at its next statement
Goto(r, pc) ==
  rpc' = (rpc (-) SetToBag({r})) (+) SetToBag({[r EXCEPT !.pc = pc]})

\* caseStudies.delete, the checks in their order: the case study exists, and
\* the caller is its author or has role admin
DeleteChecks(u, role, c) ==
  LET caseStudy == getCaseStudyById(c) IN
  IF caseStudy = NoRow THEN "NOT_FOUND"
  ELSE IF caseStudy.userId # u /\ role # "admin" THEN "FORBIDDEN"
  ELSE "ok"

\* caseStudies.delete up to the first statement of deleteCaseStudy
CaseStudiesDelete(u, role, c) ==
  /\ LET result == DeleteChecks(u, role, c) IN
     IF result = "ok" THEN
       /\ Await(DeleteRequest("deleteFavorites", u, role, c))
       /\ UNCHANGED lastResponse
     ELSE
       Respond("caseStudies.delete", result) /\ UNCHANGED rpc
  /\ UNCHANGED <<questVars, caseVars>>
  /\ UNCHANGED <<users, clock, env, userProfile, dbVars>>

\* caseStudies.delete: the favorites of the case study are deleted
CaseStudiesDeleteFavorites(r) ==
  /\ r.pc = "deleteFavorites"
  /\ deleteCaseStudy_favorites(r.id)
  /\ Goto(r, "deleteReports")
  /\ UNCHANGED <<questVars, caseStudies, reports, lastResponse>>
  /\ UNCHANGED <<users, clock, env, userProfile, dbVars>>

\* caseStudies.delete: the reports of the case study are deleted
CaseStudiesDeleteReports(r) ==
  /\ r.pc = "deleteReports"
  /\ deleteCaseStudy_reports(r.id)
  /\ Goto(r, "deleteCaseStudy")
  /\ UNCHANGED <<questVars, caseStudies, favorites, lastResponse>>
  /\ UNCHANGED <<users, clock, env, userProfile, dbVars>>

\* caseStudies.delete: the case study is deleted, answered success: true
CaseStudiesDeleteRow(r) ==
  /\ r.pc = "deleteCaseStudy"
  /\ deleteCaseStudy_caseStudies(r.id)
  /\ Respond("caseStudies.delete", "deleted")
  /\ Finish(r)
  /\ UNCHANGED questVars
  /\ UNCHANGED <<users, clock, env, userProfile, dbVars>>

\* what an update may carry as the title: a title, or none
Titles == {"title", "edited"}
UpdateInputs == Titles \cup {undefined}

\* an update in flight carries the caller and the data
UpdateRequest(pc, u, id, data) ==
  [pc |-> pc, caller |-> u, id |-> id, data |-> data, outcome |-> NoOutcome,
   answerId |-> NULL, solver |-> NULL]

\* caseStudies.update, the checks in their order: the case study exists, and
\* the caller is its author, whatever the caller's role
UpdateChecks(u, role, c) ==
  LET caseStudy == getCaseStudyById(c) IN
  IF caseStudy = NoRow THEN "NOT_FOUND"
  ELSE IF caseStudy.userId # u THEN "FORBIDDEN"
  ELSE "ok"

\* caseStudies.update up to its write
CaseStudiesUpdate(u, role, c, data) ==
  /\ LET result == UpdateChecks(u, role, c) IN
     IF result = "ok" THEN
       /\ Await(UpdateRequest("updateCaseStudy", u, c, data))
       /\ UNCHANGED lastResponse
     ELSE
       Respond("caseStudies.update", result) /\ UNCHANGED rpc
  /\ UNCHANGED <<questVars, caseVars>>
  /\ UNCHANGED <<users, clock, env, userProfile, dbVars>>

\* caseStudies.update: the write
CaseStudiesUpdateWrite(r) ==
  /\ r.pc = "updateCaseStudy"
  /\ updateCaseStudy(r.id, r.data)
  /\ Respond("caseStudies.update", "updated")
  /\ Finish(r)
  /\ UNCHANGED <<questVars, favorites, reports>>
  /\ UNCHANGED <<users, clock, env, userProfile, dbVars>>

\* profile.updateName: the name of the caller is set to the name sent
ProfileUpdateName(u, name) ==
  /\ LET out == updateUserName(u, name) IN
     /\ users' = out.users
     /\ lastResponse' = [op |-> "profile.updateName",
                         result |-> IF out.returns THEN "true" ELSE "false",
                         userId |-> u, name |-> name]
  /\ UNCHANGED <<questVars, caseVars, rpc, clock, env, userProfile, dbVars>>

\* profile.byUserId, isOwner: the caller is the user of the profile
isOwner(u, userId) == u # 0 /\ u = userId

\* ------------------------------------------------------------- home page
\* handleFavoriteClick and handleFavoriteToggle: a signed-in user toggles
handleFavoriteClick(u, caseId) ==
  /\ u \in Users
  /\ ToggleFavorite(u, caseId)

\* handleReportCase: nothing is sent for the user's own post
handleReportCase(u, caseId, ownerUserId) ==
  /\ u \in Users
  /\ u # ownerUserId
  /\ Report(u, caseId)

\* canDeleteSelected: the delete button is shown to the author of the
\* selected case study and to an admin
canDeleteSelected(u, role, selectedCase) ==
  /\ selectedCase # NoRow
  /\ u \in Users
  /\ (selectedCase.userId = u \/ role = "admin")

\* handleDeleteCase, behind the delete button of the selected case study
handleDeleteCase(u, role, caseId) ==
  /\ canDeleteSelected(u, role, getCaseStudyById(caseId))
  /\ CaseStudiesDelete(u, role, caseId)

\* Admin, handleDelete: the list of all posts is shown to role admin only
handleDelete(u, role, id) ==
  /\ role = "admin"
  /\ CaseStudiesDelete(u, role, id)

\* canManageSelected: the selected case study is the user's own
canManageSelected(u, selectedCase) ==
  /\ selectedCase # NoRow
  /\ u \in Users
  /\ selectedCase.userId = u

\* canEditSelected
canEditSelected(u, loginMethod, selectedCase) ==
  canManageSelected(u, selectedCase) /\ loginMethod = "google"

\* handleEditCase, behind the edit button: it opens the editor, which sends
\* the update
handleEditCase(u, role, loginMethod, caseId, data) ==
  /\ canEditSelected(u, loginMethod, getCaseStudyById(caseId))
  /\ CaseStudiesUpdate(u, role, caseId, data)

\* ------------------------------------------------------------ quest pages
\* function normalizeQuestStatus(status): QuestStatus
normalizeQuestStatus(status) ==
  IF status = "open" THEN "open"
  ELSE IF status = "finished" THEN "finished"
  ELSE IF status = "suspended" THEN "suspended"
  ELSE IF status = "unsolved" THEN "unsolved"
  ELSE IF status = "closed" THEN "unsolved"
  ELSE "unsolved"

Pages == {"four-state", "two-state"}

\* What a page shows of quest q: detailQuery.data as of its last fetch, so
\* the quest row as it is or as it was while open, and the answers of the
\* quest that existed then (answers are appended, none is removed).
QuestViews(q) ==
  LET quest == getQuestById(q)
      answers == getQuestAnswers(q)
  IN  {[quest |-> sq, answers |-> SubSeq(answers, 1, k)] :
         sq \in {quest, [quest EXCEPT !.status = "open",
                                      !.solvedAnswerId = NULL,
                                      !.solverUserId = NULL,
                                      !.closedAt = NULL]},
         k \in 0 .. Len(answers)}
\* the views that differ in what handleSubmitAnswer reads (the status), and
\* in what handleConfirmCloseQuest reads (the answers)
StatusViews(q) == {v \in QuestViews(q) : v.answers = getQuestAnswers(q)}
AnswerViews(q) == {v \in QuestViews(q) : v.quest = getQuestById(q)}

\* const isSelectedQuestOwner = Boolean(selectedQuest && user?.id === selectedQuest.userId)
isSelectedQuestOwner(u, view) == view.quest # NoRow /\ u = view.quest.userId

\* const isSelectedQuestClosed, in the four-state and in the two-state page
isSelectedQuestClosed(page, view) ==
  IF page = "four-state"
  THEN view.quest # NoRow /\ normalizeQuestStatus(view.quest.status) # "open"
  ELSE view.quest.status = "closed"

\* The status a page shows for a quest. The four-state page shows the
\* normalized status; the two-state page shows Closed for 'closed' and Open
\* for every other status.
presentedStatus(page, status) ==
  IF page = "four-state" THEN normalizeQuestStatus(status)
  ELSE IF status = "closed" THEN "closed" ELSE "open"

\* A page shows a quest it has fetched: the status stored and the status
\* shown. A fetch returns once getDb has passed its migrations.
ViewQuest(page, q) ==
  /\ _db # null
  /\ _avatarColumnEnsured /\ _reportsTableEnsured /\ _questTablesEnsured
  /\ lastResponse' = [op |-> "view", result |-> "shown", page |-> page,
                      status |-> quests[q].status,
                      presented |-> presentedStatus(page, quests[q].status)]
  /\ UNCHANGED <<questVars, caseVars, rpc, users, clock, env, userProfile,
                 dbVars>>

\* handleSubmitAnswer of either page: nothing is sent for a quest the page
\* shows as closed
handleSubmitAnswer(page, u, q, view) ==
  /\ q # NULL
  /\ ~isSelectedQuestClosed(page, view)
  /\ QuestsAnswer(u, q)

\* handleConfirmCloseQuest of the four-state page; selectedSolvedAnswerId is
\* the empty choice (NULL) or one of the answers the page shows
handleConfirmCloseQuest(u, q, view, closeOutcome, selectedSolvedAnswerId) ==
  LET isFinished == closeOutcome = "finished" IN
  /\ q # NULL /\ isSelectedQuestOwner(u, view)
  /\ ~(isFinished /\ Len(view.answers) = 0)
  /\ ~(isFinished /\ selectedSolvedAnswerId = NULL)
  /\ QuestsClose(u, q, closeOutcome,
                 IF isFinished THEN selectedSolvedAnswerId ELSE NULL)

\* handleCloseQuest of the two-state page: the request names the quest only
handleCloseQuest(u, q, view) ==
  /\ q # NULL /\ isSelectedQuestOwner(u, view)
  /\ QuestsClose(u, q, NoOutcome, NULL)

\* ---------------------------------------------------------- profile page
\* getUserPublicById(userId): the row of the user, or undefined
getUserPublicById(userId) ==
  IF _db # null /\ \E i \in DOMAIN users : users[i].id = userId
  THEN users[CHOOSE i \in DOMAIN users : users[i].id = userId]
  ELSE NoRow

\* UserProfile({ userId }): the page of a user is opened by a viewer, who is
\* a user or nobody (0); the effect sets the name field to the name of the
\* profile, or to the empty string
UserProfile(viewer, userId) ==
  /\ userProfile' =
       [userId |-> userId, viewer |-> viewer,
        name |-> LET profile == getUserPublicById(userId) IN
                 IF profile = NoRow THEN ""
                 ELSE IF profile.name = null THEN "" ELSE profile.name]
  /\ UNCHANGED <<questVars, caseVars, rpc, lastResponse, users, clock, env,
                 dbVars>>

\* setName(event.target.value): the viewer types into the name field
setName(value) ==
  /\ userProfile.userId # 0
  /\ userProfile' = [userProfile EXCEPT !.name = value]
  /\ UNCHANGED <<questVars, caseVars, rpc, lastResponse, users, clock, env,
                 dbVars>>

\* handleSaveName without the test of isOwner
handleSaveNameWithoutOwnerTest ==
  /\ userProfile.viewer # 0
  /\ trim(userProfile.name) # ""
  /\ ProfileUpdateName(userProfile.viewer, trim(userProfile.name))

\* handleSaveName: returns unless the viewer is the owner of the profile and
\* the trimmed name is not empty
handleSaveName ==
  /\ isOwner(userProfile.viewer, userProfile.userId)
  /\ trim(userProfile.name) # ""
  /\ ProfileUpdateName(userProfile.viewer, trim(userProfile.name))

\* ---------------------------------------------------- the database handle
\* export function initDb(d1), called with the D1 binding or with none
initDb(d1) ==
  /\ _dbBinding' = IF d1 # null THEN d1 ELSE _dbBinding
  /\ _db' = IF _db = null /\ d1 # null THEN drizzle(d1) ELSE _db
  /\ UNCHANGED <<questVars, caseVars, rpc, lastResponse, users, clock, env, userProfile,
                 _avatarColumnEnsured, _reportsTableEnsured,
                 _questTablesEnsured, attempts>>

\* how the statements of a migration end: they succeed, they fail because
\* the column is there already, or they fail otherwise
StatementOutcomes == {"ok", "already exists", "error"}

\* ensureAvatarColumn, its try and catch: whether it throws, and whether it
\* warns "[Database] Failed to add users.avatarUrl column:"
ensureAvatarColumn(outcome) ==
  [throws |-> FALSE, warns |-> outcome = "error"]

\* ensureReportsTable, its try and catch: it warns
\* "[Database] Failed to create reports table:" of any error
ensureReportsTable(outcome) ==
  [throws |-> FALSE, warns |-> outcome # "ok"]

\* ensureQuestTables without its outer try and catch
ensureQuestTablesWithoutCatch(outcome) ==
  [throws |-> outcome = "error", warns |-> FALSE]

\* ensureQuestTables, its try and catch: the inner catch of an ALTER TABLE
\* passes over the column that is there already and throws any other error
\* to the outer catch, which warns "[Database] Failed to create quest
\* tables:"
ensureQuestTables(outcome) ==
  [throws |-> FALSE, warns |-> outcome = "error"]

\* UPDATE quests SET status = 'unsolved' WHERE status = 'closed'
UpdateClosedToUnsolved(table) ==
  [i \in DOMAIN table |->
    IF table[i].status = "closed"
    THEN [table[i] EXCEPT !.status = "unsolved"] ELSE table[i]]

\* The table quests after the statements of a migration. ensureQuestTables
\* runs the UPDATE unless a statement before it has failed; when a
\* statement has failed, it was one before the UPDATE or one after it.
QuestsAfter(m, outcome) ==
  IF m # "ensureQuestTables" THEN {quests}
  ELSE IF outcome = "error" THEN {quests, UpdateClosedToUnsolved(quests)}
  ELSE {UpdateClosedToUnsolved(quests)}

\* if (_xEnsured || !_dbBinding) return, and the binding has prepare
Ensured(m) ==
  \/ _dbBinding = null
  \/ m = "ensureAvatarColumn" /\ _avatarColumnEnsured
  \/ m = "ensureReportsTable" /\ _reportsTableEnsured
  \/ m = "ensureQuestTables" /\ _questTablesEnsured

\* getDb awaits the three migrations in this order
MigrationOrder ==
  <<"ensureAvatarColumn", "ensureReportsTable", "ensureQuestTables">>

\* the migration that getDb runs next, after the first done of them: the
\* first that is not ensured, or none
NextMigration(done) ==
  LET todo == {i \in DOMAIN MigrationOrder :
                 i > done /\ ~Ensured(MigrationOrder[i])} IN
  IF todo = {} THEN "none"
  ELSE MigrationOrder[CHOOSE i \in todo : \A j \in todo : i <= j]

\* the place of a migration in the order
Place(m) == CHOOSE i \in DOMAIN MigrationOrder : MigrationOrder[i] = m

\* a call of a data-access operation in flight: where it is, whether a
\* migration of its getDb has warned of a failure, and what its
\* await getDb() has returned
DbCall(pc, op, u, id) ==
  [pc |-> pc, op |-> op, caller |-> u, id |-> id, warned |-> FALSE,
   db |-> null]

\* the request goes on as r2
Resume(r, r2) ==
  rpc' = (rpc (-) SetToBag({r})) (+) SetToBag({r2})

\* getDb, from after the first done of its migrations up to its next await
\* of a statement: a migration that is not ensured sets its flag and starts
\* its statements; when none is left getDb returns _db
getDb(r, warned, done) ==
  LET m == NextMigration(done) IN
  /\ _avatarColumnEnsured' =
       (_avatarColumnEnsured \/ m = "ensureAvatarColumn")
  /\ _reportsTableEnsured' =
       (_reportsTableEnsured \/ m = "ensureReportsTable")
  /\ _questTablesEnsured' =
       (_questTablesEnsured \/ m = "ensureQuestTables")
  /\ attempts' = IF m = "none" THEN attempts
                 ELSE [attempts EXCEPT ![m] = @ + 1]
  /\ IF m = "none"
     THEN Resume(r, [r EXCEPT !.pc = "db", !.warned = warned, !.db = _db])
     ELSE Resume(r, [r EXCEPT !.pc = m, !.warned = warned])

\* the error of a write when getDb has returned null
NotAvailableError == "Error: Database not available"

\* the operations of the data-access layer that are called here, those
\* that read and those that write
ReadOperations == {"getAllCaseStudies", "getCaseStudyById", "isFavorite"}
WriteOperations == {"createCaseStudy", "addFavorite"}
Operations == ReadOperations \cup WriteOperations

\* every operation returns false when getDb has returned null
NotAvailableReturnsFalse(op) == "false"

\* if (!db) of each operation: what it returns, or the error it throws
NotAvailable(op) ==
  CASE op = "getAllCaseStudies" -> "[]"
    [] op = "getCaseStudyById" -> "undefined"
    [] op = "isFavorite" -> "false"
    [] op \in WriteOperations -> NotAvailableError

\* A data-access operation is called: const db = await getDb(), up to the
\* first await. getDb warns "[Database] Database not initialized." and
\* returns null when _db is null.
DataAccess(op, u, id) ==
  /\ Accepting
  /\ BagCardinality(rpc) < MaxCalls
  /\ LET r == DbCall("getDb", op, u, id) IN
     IF _db = null
     THEN /\ rpc' = rpc (+) SetToBag({[r EXCEPT !.pc = "db"]})
          /\ UNCHANGED <<_avatarColumnEnsured, _reportsTableEnsured,
                         _questTablesEnsured, attempts>>
     ELSE getDb(r, FALSE, 0)
  /\ UNCHANGED <<questVars, caseVars, lastResponse, users, clock, env, userProfile, _db,
                 _dbBinding>>

\* the error of a migration that reaches the caller of the operation
MigrationError == "Error: migration"

\* The statements of a migration end, and getDb goes on.
getDbAwait(r) ==
  /\ r.pc \in Migrations
  /\ \E outcome \in StatementOutcomes :
       LET ensured == CASE r.pc = "ensureAvatarColumn"
                             -> ensureAvatarColumn(outcome)
                        [] r.pc = "ensureReportsTable"
                             -> ensureReportsTable(outcome)
                        [] r.pc = "ensureQuestTables"
                             -> ensureQuestTables(outcome) IN
       /\ quests' \in QuestsAfter(r.pc, outcome)
       /\ IF ensured.throws
          THEN /\ Respond(r.op, MigrationError)
               /\ Finish(r)
               /\ UNCHANGED <<_avatarColumnEnsured, _reportsTableEnsured,
                              _questTablesEnsured, attempts>>
          ELSE /\ getDb(r, r.warned \/ ensured.warns, Place(r.pc))
               /\ UNCHANGED lastResponse
  /\ UNCHANGED <<questAnswers, caseVars, users, clock, env, userProfile, _db,
                 _dbBinding>>

\* The operation after its await getDb(): if (!db) it returns or throws;
\* otherwise its statements run.
DataAccessRun(r) ==
  /\ r.pc = "db"
  /\ IF r.db = null
     THEN /\ Respond(r.op, NotAvailable(r.op))
          /\ UNCHANGED caseVars
     ELSE \/ /\ r.op = "getAllCaseStudies"
             /\ Respond(r.op, IF getAllCaseStudies = << >>
                              THEN "[]" ELSE "rows")
             /\ UNCHANGED caseVars
          \/ /\ r.op = "getCaseStudyById"
             /\ Respond(r.op, IF getCaseStudyById(r.id) = NoRow
                              THEN "undefined" ELSE "row")
             /\ UNCHANGED caseVars
          \/ /\ r.op = "isFavorite"
             /\ Respond(r.op, IF isFavorite(r.caller, r.id)
                              THEN "true" ELSE "false")
             /\ UNCHANGED caseVars
          \/ /\ r.op = "createCaseStudy"
             /\ createCaseStudy([userId |-> r.caller, title |-> "title"])
             /\ Respond(r.op, "insertId")
             /\ UNCHANGED <<favorites, reports>>
          \/ /\ r.op = "addFavorite"
             /\ LET out == addFavorite(r.caller, r.id) IN
                /\ favorites' = out.favorites
                /\ Respond(r.op, IF out.returns THEN "true" ELSE "false")
             /\ UNCHANGED <<caseStudies, reports>>
  /\ Finish(r)
  /\ UNCHANGED <<questVars, users, clock, env, userProfile, dbVars>>

\* ------------------------------------------------------- request inputs
\* Users are interchangeable: the callers are the users that own a row or a
\* request in flight, and the first user that does not.
UsersSeen ==
  SetMax({quests[i].userId : i \in DOMAIN quests}
         \cup {questAnswers[i].userId : i \in DOMAIN questAnswers}
         \cup {caseStudies[i].userId : i \in DOMAIN caseStudies}
         \cup {row.userId : row \in BagToSet(favorites)}
         \cup {row.userId : row \in BagToSet(reports)}
         \cup {r.caller : r \in InFlight})
Callers == 1 .. Min(NumUsers, UsersSeen + 1)
\* what a caller of quests.close may send: for a quest that exists, an
\* outcome, with the id of an answer, no id, or an id that no answer has,
\* when the outcome is finished; and a request for a quest that does not exist
AnswerInputs == 0 .. Min(MaxRows, Len(questAnswers) + 1)
CloseInputs ==
  {<<u, q, o, NULL>> :
     u \in Callers, q \in DOMAIN quests, o \in QuestClosedStatus \ {"finished"}}
    \cup {<<u, q, "finished", a>> :
            u \in Callers, q \in DOMAIN quests, a \in AnswerInputs}
    \cup {<<1, Len(quests) + 1, "unsolved", NULL>>}
\* what a caller of quests.answer may send
AnswerRequests ==
  {<<u, q>> : u \in Callers, q \in DOMAIN quests}
    \cup {<<1, Len(quests) + 1>>}
\* what the close dialog may hold
DialogInputs(view) ==
  {<<o, NULL>> : o \in QuestClosedStatus}
    \cup {<<"finished", view.answers[i].id>> : i \in DOMAIN view.answers}

\* Requests overlap: a request starts while others are between two awaits.
\* It starts when none is in flight or the load is under the bound.
Starting == AllIdle \/ Accepting

Next ==
  \/ Starting /\ \E u \in Callers : QuestsCreate(u)
  \/ Starting /\ \E in \in CloseInputs :
        QuestsClose(in[1], in[2], in[3], in[4])
  \/ Starting /\ \E in \in AnswerRequests : QuestsAnswer(in[1], in[2])
  \/ Starting /\ \E u \in Callers, q \in DOMAIN quests :
        \E view \in AnswerViews(q) : \E in \in DialogInputs(view) :
          handleConfirmCloseQuest(u, q, view, in[1], in[2])
  \/ Starting /\ \E u \in Callers, q \in DOMAIN quests :
        \E view \in AnswerViews(q) : handleCloseQuest(u, q, view)
  \/ Starting /\ \E page \in Pages, u \in Callers, q \in DOMAIN quests :
        \E view \in StatusViews(q) : handleSubmitAnswer(page, u, q, view)
  \/ \E r \in InFlight : QuestsCloseWrite(r)
  \/ \E r \in InFlight : QuestsAnswerInsert(r)

Spec == Init /\ [][Next]_vars

\* what a caller may name as the case study: one that exists, or the next id
CaseInputs == 1 .. Min(MaxRows, Len(caseStudies) + 1)

\* The case-study procedures, requests overlapping: a request starts while
\* others are between two awaits.
NextCases ==
  \/ Starting /\ \E u \in Callers : CaseStudiesCreate(u)
  \/ Starting /\ \E u \in Callers, c \in CaseInputs : ToggleFavorite(u, c)
  \/ Starting /\ \E u \in Callers, c \in DOMAIN caseStudies :
        handleFavoriteClick(u, c)
  \/ Starting /\ \E u \in Callers, c \in CaseInputs : Report(u, c)
  \/ Starting /\ \E u \in Callers, c \in DOMAIN caseStudies :
        handleReportCase(u, c, caseStudies[c].userId)
  \/ \E r \in InFlight : ToggleFavoriteAdd(r)
  \/ \E r \in InFlight : ToggleFavoriteRemove(r)
  \/ \E r \in InFlight : ReportInsert(r)

SpecCases == Init /\ [][NextCases]_vars

\* The case-study procedures, requests one after another: a request starts
\* when none is in flight.
NextCasesSeq ==
  \/ AllIdle /\ \E u \in Callers : CaseStudiesCreate(u)
  \/ AllIdle /\ \E u \in Callers, c \in CaseInputs : ToggleFavorite(u, c)
  \/ AllIdle /\ \E u \in Callers, c \in DOMAIN caseStudies :
        handleFavoriteClick(u, c)
  \/ AllIdle /\ \E u \in Callers, c \in CaseInputs : Report(u, c)
  \/ AllIdle /\ \E u \in Callers, c \in DOMAIN caseStudies :
        handleReportCase(u, c, caseStudies[c].userId)
  \/ \E r \in InFlight : ToggleFavoriteAdd(r)
  \/ \E r \in InFlight : ToggleFavoriteRemove(r)
  \/ \E r \in InFlight : ReportInsert(r)

SpecCasesSeq == Init /\ [][NextCasesSeq]_vars

\* the case studies a page lists: the rows that exist
Listed == {c \in DOMAIN caseStudies : caseStudies[c].id # NULL}

\* The case-study procedures with caseStudies.delete, requests overlapping.
NextCasesDelete ==
  \/ Starting /\ \E u \in Callers : CaseStudiesCreate(u)
  \/ Starting /\ \E u \in Callers, c \in CaseInputs : ToggleFavorite(u, c)
  \/ Starting /\ \E u \in Callers, c \in CaseInputs : Report(u, c)
  \/ Starting /\ \E u \in Callers, role \in Roles, c \in CaseInputs :
        CaseStudiesDelete(u, role, c)
  \/ Starting /\ \E u \in Callers, role \in Roles, c \in Listed :
        handleDeleteCase(u, role, c)
  \/ Starting /\ \E u \in Callers, role \in Roles, c \in Listed :
        handleDelete(u, role, c)
  \/ \E r \in InFlight : ToggleFavoriteAdd(r)
  \/ \E r \in InFlight : ToggleFavoriteRemove(r)
  \/ \E r \in InFlight : ReportInsert(r)
  \/ \E r \in InFlight : CaseStudiesDeleteFavorites(r)
  \/ \E r \in InFlight : CaseStudiesDeleteReports(r)
  \/ \E r \in InFlight : CaseStudiesDeleteRow(r)

SpecCasesDelete == Init /\ [][NextCasesDelete]_vars

\* users.loginMethod of the caller
LoginMethods == {"google", "other"}

\* The case-study procedures with caseStudies.update, requests overlapping.
NextCasesUpdate ==
  \/ Starting /\ \E u \in Callers : CaseStudiesCreate(u)
  \/ Starting /\ \E u \in Callers, role \in Roles, c \in CaseInputs :
        \E title \in UpdateInputs :
          CaseStudiesUpdate(u, role, c, [title |-> title])
  \/ Starting /\ \E u \in Callers, role \in Roles, c \in Listed :
        \E loginMethod \in LoginMethods, title \in UpdateInputs :
          handleEditCase(u, role, loginMethod, c, [title |-> title])
  \/ \E r \in InFlight : CaseStudiesUpdateWrite(r)

SpecCasesUpdate == Init /\ [][NextCasesUpdate]_vars

\* the names a caller of profile.updateName may send
NameInputs == {"", " ", " name", "name"}

\* The quest, case-study and profile procedures together, requests
\* overlapping.
NextAll ==
  \/ Starting /\ \E u \in Callers : QuestsCreate(u)
  \/ Starting /\ \E in \in CloseInputs :
        QuestsClose(in[1], in[2], in[3], in[4])
  \/ Starting /\ \E in \in AnswerRequests : QuestsAnswer(in[1], in[2])
  \/ \E r \in InFlight : QuestsCloseWrite(r)
  \/ \E r \in InFlight : QuestsAnswerInsert(r)
  \/ Starting /\ \E u \in Callers : CaseStudiesCreate(u)
  \/ Starting /\ \E u \in Callers, c \in CaseInputs : ToggleFavorite(u, c)
  \/ Starting /\ \E u \in Callers, c \in CaseInputs : Report(u, c)
  \/ Starting /\ \E u \in Callers, role \in Roles, c \in CaseInputs :
        CaseStudiesDelete(u, role, c)
  \/ Starting /\ \E u \in Callers, role \in Roles, c \in CaseInputs :
        \E title \in UpdateInputs :
          CaseStudiesUpdate(u, role, c, [title |-> title])
  \/ \E r \in InFlight : ToggleFavoriteAdd(r)
  \/ \E r \in InFlight : ToggleFavoriteRemove(r)
  \/ \E r \in InFlight : ReportInsert(r)
  \/ \E r \in InFlight : CaseStudiesDeleteFavorites(r)
  \/ \E r \in InFlight : CaseStudiesDeleteReports(r)
  \/ \E r \in InFlight : CaseStudiesDeleteRow(r)
  \/ \E r \in InFlight : CaseStudiesUpdateWrite(r)
  \/ \E u \in Callers : ProfileUpdateName(u, "name")

SpecAll == Init /\ [][NextAll]_vars

\* Quests, answers, case studies and reports are created, case studies are
\* deleted, and the quests and the case studies are listed.
NextLists ==
  \/ Starting /\ \E u \in Callers : QuestsCreate(u)
  \/ Starting /\ \E in \in AnswerRequests : QuestsAnswer(in[1], in[2])
  \/ \E r \in InFlight : QuestsAnswerInsert(r)
  \/ Starting /\ \E u \in Callers : CaseStudiesCreate(u)
  \/ Starting /\ \E u \in Callers, c \in CaseInputs : Report(u, c)
  \/ \E r \in InFlight : ReportInsert(r)
  \/ Starting /\ \E u \in Callers, role \in Roles, c \in CaseInputs :
        CaseStudiesDelete(u, role, c)
  \/ \E r \in InFlight : CaseStudiesDeleteFavorites(r)
  \/ \E r \in InFlight : CaseStudiesDeleteReports(r)
  \/ \E r \in InFlight : CaseStudiesDeleteRow(r)
  \/ QuestsList
  \/ CaseStudiesList

SpecLists == Init /\ [][NextLists]_vars

\* the instants of the clock
Instants == 1 .. MaxTime

\* A call of updateUserName, with the id of a user or of none and with any
\* name.
UpdateUserName(userId, name) ==
  /\ LET out == updateUserName(userId, name) IN
     /\ users' = out.users
     /\ lastResponse' = [op |-> "updateUserName",
                         result |-> IF out.returns THEN "true" ELSE "false",
                         userId |-> userId, name |-> name]
  /\ UNCHANGED <<questVars, caseVars, rpc, clock, env, userProfile, dbVars>>

\* the identities that sign in before profiles are viewed: an admin with an
\* email, and a user with a name
ProfileUsers ==
  {[openId |-> "a", email |-> "mail", role |-> "admin"],
   [openId |-> "b", name |-> "name"]}

\* Time passes, or the clock is set: Date.now() follows the wall clock,
\* which may be set back.
Tick ==
  /\ \E t \in Instants \ {clock} : clock' = t
  /\ UNCHANGED <<questVars, caseVars, rpc, lastResponse, users, env,
                 userProfile, dbVars>>

\* Quests and answers are created at the instants of a clock that moves,
\* and are listed.
NextListing ==
  \/ Tick
  \/ Starting /\ \E u \in Callers : QuestsCreate(u)
  \/ Starting /\ \E in \in AnswerRequests : QuestsAnswer(in[1], in[2])
  \/ \E r \in InFlight : QuestsAnswerInsert(r)
  \/ QuestsList
  \/ \E q \in 1 .. Len(quests) + 1 : QuestsGetById(q)

SpecListing == Init /\ [][NextListing]_vars

\* the external auth ids of the identities that sign in
OpenIds == {"a", "b"}

\* The environments a process is given: no owner; one owner, in
\* OWNER_OPEN_ID; owners listed in OWNER_OPEN_IDS, with blanks and empty
\* items, beside another in OWNER_OPEN_ID.
Envs ==
  {NoEnv,
   [OWNER_OPEN_IDS |-> <<"">>, OWNER_OPEN_ID |-> "b "],
   [OWNER_OPEN_IDS |-> <<" ", "b ">>, OWNER_OPEN_ID |-> "a"],
   [OWNER_OPEN_IDS |-> <<" a", "">>, OWNER_OPEN_ID |-> "b"]}

\* what upsertUser is called with: the openId, and any of name, role and
\* lastSignedIn
UserInputs ==
  LET Names == {null, "name"}
      Times == {clock}
  IN  [openId : OpenIds \cup {""}]
      \cup [openId : OpenIds, name : Names]
      \cup [openId : OpenIds, role : Roles]
      \cup [openId : OpenIds, lastSignedIn : Times]
      \cup [openId : OpenIds, name : Names, role : Roles]
      \cup [openId : OpenIds, name : Names, lastSignedIn : Times]
      \cup [openId : OpenIds, role : Roles, lastSignedIn : Times]
      \cup [openId : OpenIds, name : Names, role : Roles,
             lastSignedIn : Times]

\* A call of upsertUser, which the sign-in callback makes with the identity
\* it was given.
UpsertUser(user) ==
  /\ LET out == upsertUser(user) IN
     /\ users' = out.users
     /\ lastResponse' = [op |-> "upsertUser",
                         result |-> IF out.throws = "none" THEN undefined
                                    ELSE out.throws,
                         user |-> user]
  /\ UNCHANGED <<questVars, caseVars, rpc, clock, env, userProfile, dbVars>>

\* initEnv(values): the process is given its environment
initEnv(values) ==
  /\ env' = values
  /\ UNCHANGED <<questVars, caseVars, rpc, lastResponse, users, clock,
                 userProfile, dbVars>>

\* the settings of ENV that are read
Settings == {"ownerOpenId", "ownerOpenIds"}

\* A getter of ENV is read: it calls readEnv.
ReadEnv(setting) ==
  /\ lastResponse' =
       [op |-> "ENV", setting |-> setting,
        result |-> IF setting = "ownerOpenId" THEN <<ownerOpenId>>
                   ELSE ownerOpenIds]
  /\ UNCHANGED <<questVars, caseVars, rpc, users, clock, env, userProfile,
                 dbVars>>

\* The environment is set by initEnv, settings are read, and identities
\* sign in.
NextEnv ==
  \/ \E values \in Envs : initEnv(values)
  \/ \E setting \in Settings : ReadEnv(setting)
  \/ \E user \in [openId : OpenIds] : UpsertUser(user)

SpecEnv == Init /\ [][NextEnv]_vars

\* ---- the id that a create returns
\* export async function createCaseStudy / createQuest / createQuestAnswer

\* .orderBy(desc(createdAt)).limit(1) over the rows that the where clause
\* keeps: the ids of the rows that may come first. created_at counts whole
\* seconds (unixepoch() * 1000), and the order among the rows of one
\* created_at is not specified; inserted?.id || 0 when no row is kept
latestId(rows) ==
  IF rows = {} THEN {0}
  ELSE {r.id : r \in {r \in rows : \A r2 \in rows : r2.createdAt <= r.createdAt}}

RowsIn(table) == {table[i] : i \in DOMAIN table}

\* the rows that the select of each create keeps
selected(r) ==
  CASE r.pc = "createCaseStudy" ->
         {c \in RowsIn(caseStudies) : c.userId = r.caller}
    [] r.pc = "createQuest" ->
         {q \in RowsIn(quests) : q.userId = r.caller}
    [] r.pc = "createQuestAnswer" ->
         {a \in RowsIn(questAnswers) :
            a.questId = r.id /\ a.userId = r.caller}

Creates == {"createCaseStudy", "createQuest", "createQuestAnswer"}

\* A create between its insert and its select. inserted is the id that the
\* insert gave the row; the call itself does not learn it.
Creating(fn, u, q, inserted) ==
  [pc |-> fn, caller |-> u, id |-> q, inserted |-> inserted]

\* createCaseStudy up to its insert
CreateCaseStudy(u) ==
  /\ Accepting
  /\ createCaseStudy([userId |-> u, title |-> "title"])
  /\ Await(Creating("createCaseStudy", u, NULL, Len(caseStudies) + 1))
  /\ UNCHANGED <<questVars, favorites, reports, lastResponse>>
  /\ UNCHANGED <<users, clock, env, userProfile, dbVars>>

\* createQuest up to its insert
CreateQuest(u) ==
  /\ Accepting
  /\ createQuest([userId |-> u])
  /\ Await(Creating("createQuest", u, NULL, Len(quests) + 1))
  /\ UNCHANGED <<questAnswers, caseVars, lastResponse>>
  /\ UNCHANGED <<users, clock, env, userProfile, dbVars>>

\* createQuestAnswer up to its insert
CreateQuestAnswer(u, q) ==
  /\ Accepting
  /\ createQuestAnswer([questId |-> q, userId |-> u, content |-> "content"])
  /\ Await(Creating("createQuestAnswer", u, q, Len(questAnswers) + 1))
  /\ UNCHANGED <<quests, caseVars, lastResponse>>
  /\ UNCHANGED <<users, clock, env, userProfile, dbVars>>

\* a create from its select on: return { insertId: inserted?.id || 0 }
CreateSelect(r) ==
  /\ r.pc \in Creates
  /\ \E id \in latestId(selected(r)) :
       lastResponse' = [op |-> r.pc, result |-> "insertId", insertId |-> id,
                        inserted |-> r.inserted]
  /\ Finish(r)
  /\ UNCHANGED <<questVars, caseVars>>
  /\ UNCHANGED <<users, clock, env, userProfile, dbVars>>

\* Case studies, quests and answers are created by calls that may overlap,
\* while time passes.
NextCreate ==
  \/ Tick
  \/ \E u \in Callers : CreateCaseStudy(u)
  \/ \E u \in Callers : CreateQuest(u)
  \/ \E u \in Callers, q \in DOMAIN quests : CreateQuestAnswer(u, q)
  \/ \E r \in InFlight : CreateSelect(r)

SpecCreate == Init /\ [][NextCreate]_vars

\* Identities sign in, in processes whose environment is set when they
\* start, while time passes.
NextUsers ==
  \/ \E values \in Envs : initEnv(values)
  \/ Tick
  \/ \E user \in UserInputs : UpsertUser(user)

SpecUsers == Init /\ [][NextUsers]_vars

\* Identities sign in, profiles are opened by users and by visitors, names
\* are typed and saved, and updateUserName is called, while time passes.
NextProfile ==
  \/ \E user \in ProfileUsers : UpsertUser(user)
  \/ Tick
  \/ \E viewer \in 0 .. Len(users), userId \in 1 .. Len(users) + 1 :
        UserProfile(viewer, userId)
  \/ \E value \in NameInputs : setName(value)
  \/ handleSaveName
  \/ \E userId \in 1 .. Len(users) + 1, name \in {"", "name"} :
        UpdateUserName(userId, name)

SpecProfile == Init /\ [][NextProfile]_vars

\* the statuses a stored quest may have: the four current ones and the
\* former 'closed'
StoredStatuses == {"open", "finished", "suspended", "unsolved", "closed"}

\* a row of quests that an earlier process has written
StoredQuest(id, status) ==
  [id |-> id, userId |-> 1, status |-> status, solvedAnswerId |-> NULL,
   solverUserId |-> NULL,
   closedAt |-> IF status = "open" THEN NULL ELSE 1, createdAt |-> 1]

\* The module has been loaded over a store that earlier processes have
\* written: it holds up to two quests of any stored status.
InitStore ==
  /\ \E n \in 0 .. 2 : \E f \in [1 .. n -> StoredStatuses] :
       quests = [i \in 1 .. n |-> StoredQuest(i, f[i])]
  /\ questAnswers = << >>
  /\ caseStudies = << >>
  /\ favorites = EmptyBag
  /\ reports = EmptyBag
  /\ users = << >>
  /\ rpc = EmptyBag
  /\ lastResponse = NoResponse
  /\ clock = 1
  /\ _db = null
  /\ _dbBinding = null
  /\ _avatarColumnEnsured = FALSE
  /\ _reportsTableEnsured = FALSE
  /\ _questTablesEnsured = FALSE
  /\ attempts = [m \in Migrations |-> 0]
  /\ env = NoEnv
  /\ userProfile = NoProfile

\* The store is bound, a first call runs the migrations, and the pages show
\* the quests.
NextStatus ==
  \/ initDb("D1")
  \/ DataAccess("getAllCaseStudies", 1, 0)
  \/ \E r \in InFlight : getDbAwait(r)
  \/ \E r \in InFlight : DataAccessRun(r)
  \/ \E page \in Pages, q \in DOMAIN quests : ViewQuest(page, q)

SpecStatus == InitStore /\ [][NextStatus]_vars

\* what initDb is called with: the D1 binding of the worker, or none
Bindings == {null, "D1"}

\* what a data-access operation is called with, for one user
DataAccessInputs ==
  {<<op, 1, NULL>> : op \in {"getAllCaseStudies"}}
    \cup {<<op, 1, c>> : op \in {"getCaseStudyById"}, c \in CaseInputs}
    \cup {<<op, 1, NULL>> : op \in {"createCaseStudy"}}
    \cup {<<op, 1, c>> :
            op \in {"isFavorite", "addFavorite"}, c \in CaseInputs}

\* The data-access layer from the load of the module: initDb, and calls of
\* operations that overlap, each through getDb and its migrations.
NextDb ==
  \/ \E d1 \in Bindings : initDb(d1)
  \/ Starting /\ \E in \in DataAccessInputs :
        DataAccess(in[1], in[2], in[3])
  \/ \E r \in InFlight : getDbAwait(r)
  \/ \E r \in InFlight : DataAccessRun(r)

SpecDb == InitModule /\ [][NextDb]_vars

\* what initDb is called with when the requests of a worker do not all
\* carry the same binding object
RequestBindings == {null, "D1", "D2"}

\* The data-access layer from the load of the module, initDb being called
\* by every request with the binding the request carries.
NextBindings ==
  \/ \E d1 \in RequestBindings : initDb(d1)
  \/ Starting /\ \E in \in DataAccessInputs :
        DataAccess(in[1], in[2], in[3])
  \/ \E r \in InFlight : getDbAwait(r)
  \/ \E r \in InFlight : DataAccessRun(r)

SpecBindings == InitModule /\ [][NextBindings]_vars

\* ------------------------------------------------------- quest lifecycle
\* what a close request may name as its answer: no answer, or any id
AnswerIds == 0 .. MaxRows + 1

\* answer id a is the id of an answer of quest q
IsAnswerOf(a, q) ==
  \E i \in DOMAIN questAnswers :
    questAnswers[i].id = a /\ questAnswers[i].questId = q

\* a request of procedure op is refused in this step: the response says so,
\* no quest changes and no write follows
RefusedLeavesQuests(op) ==
  (lastResponse' # lastResponse /\ lastResponse'.op = op
     /\ lastResponse'.result \in ErrorResults \cup {"alreadyClosed"})
    => UNCHANGED <<quests, rpc>>

\* C1: a quest whose status has left open never returns to open and never
\* changes to another terminal status: no step changes a status other than
\* open.
C1_StatusOneWay ==
  [][\A q \in DOMAIN quests :
       quests[q].status # "open" => quests'[q].status = quests[q].status]_vars

\* C2: a quest is finished only with the id of one of its answers as the
\* solved answer (so it has an answer), and so is every finish that awaits
\* its write; a finish request for an open quest that names no answer, or an
\* id that is not the id of an answer of that quest (as when the quest has no
\* answer), is refused, and a refused request changes no quest and no write
\* follows it.
C2_FinishNeedsAnswerOfQuest ==
  /\ [](/\ \A q \in DOMAIN quests :
             quests[q].status = "finished"
               => IsAnswerOf(quests[q].solvedAnswerId, q)
        /\ \A r \in InFlight :
             r.pc = "closeWrite" /\ r.outcome = "finished"
               => IsAnswerOf(r.answerId, r.id)
        /\ \A u \in Users, q \in DOMAIN quests, a \in AnswerIds :
             quests[q].status = "open" /\ ~IsAnswerOf(a, q)
               => CloseChecks(u, q, "finished", a) \in ErrorResults)
  /\ [][RefusedLeavesQuests("quests.close")]_vars

\* a finish request was refused for what it names as the answer, and a quest
\* is finished
C2_Witness ==
  /\ lastResponse = [op |-> "quests.close", result |-> "BAD_REQUEST"]
  /\ \E q \in DOMAIN quests : quests[q].status = "finished"

\* a close request is answered with result in this step: no quest changes and
\* no write follows
AnsweredLeavesQuests(result) ==
  (lastResponse' # lastResponse
     /\ lastResponse' = [op |-> "quests.close", result |-> result])
    => UNCHANGED <<quests, rpc>>

\* C3: a close request of the author for a quest that is finished, suspended
\* or unsolved is answered alreadyClosed, whatever outcome and answer id it
\* carries; the step that answers so changes no field of any quest and no
\* write follows it.
C3_RecloseAlreadyClosed ==
  /\ [](\A q \in DOMAIN quests, o \in QuestClosedStatus, a \in AnswerIds :
          quests[q].status \in QuestClosedStatus
            => CloseChecks(quests[q].userId, q, o, a) = "alreadyClosed")
  /\ [][AnsweredLeavesQuests("alreadyClosed")]_vars

C3_Witness ==
  /\ lastResponse = [op |-> "quests.close", result |-> "alreadyClosed"]
  /\ \E q \in DOMAIN quests : quests[q].status \in QuestClosedStatus

\* C4: no answer is added to a quest whose status is not open: every step
\* that inserts an answer inserts it for a quest that is open.
C4_NoAnswerOnClosedQuest ==
  [][\A i \in DOMAIN questAnswers' :
       i \notin DOMAIN questAnswers
         => quests[questAnswers'[i].questId].status = "open"]_vars

\* C5: a close request of a user who is not the author of the quest is
\* refused, whatever it carries; the close writes in flight are those of
\* authors; and a step that refuses a close request changes no field of any
\* quest and no write follows it.
C5_OnlyAuthorCloses ==
  /\ [](/\ \A u \in Users, q \in DOMAIN quests, o \in Outcomes,
              a \in AnswerIds :
             quests[q].userId # u
               => CloseChecks(u, q, o, a) \in ErrorResults
        /\ \A r \in InFlight :
             r.pc = "closeWrite" => quests[r.id].userId = r.caller)
  /\ [][AnsweredLeavesQuests("FORBIDDEN")]_vars

C5_Witness ==
  /\ lastResponse = [op |-> "quests.close", result |-> "FORBIDDEN"]
  /\ \E q \in DOMAIN quests : quests[q].status = "open"

\* C6: the four fields are set together: a quest that is open has none of
\* solvedAnswerId, solverUserId and closedAt; a quest that is finished,
\* suspended or unsolved has closedAt; solverUserId is the author of the
\* answer solvedAnswerId names, and is null when solvedAnswerId is.
C6_CloseSetsFieldsTogether ==
  \A q \in DOMAIN quests :
    LET row == quests[q] IN
    /\ row.status = "open"
         => row.solvedAnswerId = NULL /\ row.solverUserId = NULL
              /\ row.closedAt = NULL
    /\ row.status \in QuestClosedStatus => row.closedAt # NULL
    /\ row.solvedAnswerId = NULL => row.solverUserId = NULL
    /\ row.solvedAnswerId # NULL
         => \E i \in DOMAIN questAnswers :
              /\ questAnswers[i].id = row.solvedAnswerId
              /\ questAnswers[i].userId = row.solverUserId

\* A closed her quest as finished with the answer of B
C6_Witness ==
  \E q \in DOMAIN quests :
    /\ quests[q].status = "finished"
    /\ quests[q].closedAt # NULL
    /\ quests[q].solverUserId \notin {NULL, quests[q].userId}

\* C7: a solvedAnswerId that is not null is the id of an answer that exists
\* and whose questId is the quest.
C7_SolvedAnswerBelongsToQuest ==
  \A q \in DOMAIN quests :
    quests[q].solvedAnswerId # NULL
      => IsAnswerOf(quests[q].solvedAnswerId, q)

C7_Witness ==
  \E q \in DOMAIN quests : quests[q].solvedAnswerId # NULL

\* -------------------------------------------------- favorites and reports
\* the rows of a table for user u and case study c
Rows(table, u, c) == CopiesIn(PairRow(u, c), table)

\* the favorite count of case study c: the rows of the table for it
FavoriteCount(table, c) ==
  BagCardinality([row \in {x \in BagToSet(table) : x.caseStudyId = c}
                    |-> table[row]])

\* request r returns in this step
Returns(r) == rpc' = rpc (-) SetToBag({r})

\* the ids a request may name as the case study
CaseIds == 1 .. MaxRows + 1

\* C8: toggleFavorite calls of one user for one case study, one after
\* another: a call that finds the pair not favorited returns isFavorite true
\* and adds the one row (the count of the case study goes up by one); a call
\* that finds it favorited returns isFavorite false and removes the row (the
\* count goes down by one), so that two calls restore the table; and the
\* pair never has more than one row.
C8_ToggleTwiceRestores ==
  /\ [](\A u \in Users, c \in DOMAIN caseStudies : Rows(favorites, u, c) <= 1)
  /\ [][\A r \in InFlight :
          (/\ r.pc \in {"addFavorite", "removeFavorite"}
           /\ r.id \in DOMAIN caseStudies
           /\ Returns(r))
            => LET row == PairRow(r.caller, r.id) IN
               IF Rows(favorites, r.caller, r.id) = 0
               THEN /\ favorites' = favorites (+) SetToBag({row})
                    /\ Rows(favorites', r.caller, r.id) = 1
                    /\ FavoriteCount(favorites', r.id)
                         = FavoriteCount(favorites, r.id) + 1
                    /\ lastResponse' = [op |-> "caseStudies.toggleFavorite",
                                        result |-> "isFavorite"]
               ELSE /\ favorites' = favorites (-) SetToBag({row})
                    /\ Rows(favorites', r.caller, r.id) = 0
                    /\ FavoriteCount(favorites', r.id)
                         = FavoriteCount(favorites, r.id) - 1
                    /\ lastResponse' = [op |-> "caseStudies.toggleFavorite",
                                        result |-> "notFavorite"]]_vars

\* the second toggle has returned isFavorite false and no row is left
C8_Witness ==
  /\ lastResponse = [op |-> "caseStudies.toggleFavorite",
                     result |-> "notFavorite"]
  /\ Len(caseStudies) > 0
  /\ favorites = EmptyBag
  /\ rpc = EmptyBag

\* C9: toggleFavorite calls that overlap: no (user, case study) pair ever
\* has more than one row of favorites, no call is answered with an error,
\* and an insert that finds the row present changes nothing and is answered
\* as an insert is.
C9_ConcurrentTogglesOneRow ==
  /\ [](/\ \A u \in Users, c \in CaseIds : Rows(favorites, u, c) <= 1
        /\ lastResponse.op = "caseStudies.toggleFavorite"
             => lastResponse.result \in {"isFavorite", "notFavorite"})
  /\ [][\A r \in InFlight :
          (/\ r.pc = "addFavorite"
           /\ Rows(favorites, r.caller, r.id) > 0
           /\ Returns(r))
            => /\ favorites' = favorites
               /\ lastResponse' = [op |-> "caseStudies.toggleFavorite",
                                   result |-> "isFavorite"]]_vars

\* an insert is in flight for a pair whose row another call has inserted
C9_Witness ==
  \E r \in InFlight :
    r.pc = "addFavorite" /\ Rows(favorites, r.caller, r.id) = 1

\* C10: a report of user U for a case study of another user creates the one
\* row when U has none for it and is answered reported; when U has one it
\* creates none and is answered alreadyReported; it is never answered with
\* an error, and no (user, case study) pair ever has more than one row of
\* reports, also when the calls overlap.
C10_ReportOncePerUserAndCase ==
  /\ [](/\ \A u \in Users, c \in CaseIds : Rows(reports, u, c) <= 1
        /\ lastResponse.op = "caseStudies.report"
             => lastResponse.result # Thrown)
  /\ [][\A r \in InFlight :
          (r.pc = "createReport" /\ Returns(r))
            => LET row == PairRow(r.caller, r.id) IN
               /\ caseStudies[r.id].userId # r.caller
               /\ IF Rows(reports, r.caller, r.id) = 0
                  THEN /\ reports' = reports (+) SetToBag({row})
                       /\ lastResponse' = [op |-> "caseStudies.report",
                                           result |-> "reported"]
                  ELSE /\ reports' = reports
                       /\ lastResponse' = [op |-> "caseStudies.report",
                                           result |-> "alreadyReported"]]_vars

C10_Witness ==
  /\ lastResponse = [op |-> "caseStudies.report",
                     result |-> "alreadyReported"]
  /\ \E u \in Users, c \in DOMAIN caseStudies : Rows(reports, u, c) = 1

\* C11: a report of a case study by its own author is always refused and
\* creates no row: no row of reports, and no insert in flight, names a user
\* and a case study of that user.
C11_NoOwnReport ==
  /\ \A u \in Users, c \in DOMAIN caseStudies :
       caseStudies[c].userId = u => ReportChecks(u, c) = "BAD_REQUEST"
  /\ \A row \in BagToSet(reports) :
       /\ row.caseStudyId \in DOMAIN caseStudies
       /\ caseStudies[row.caseStudyId].userId # row.userId
  /\ \A r \in InFlight :
       r.pc = "createReport" =>
         /\ r.id \in DOMAIN caseStudies
         /\ caseStudies[r.id].userId # r.caller

\* an author's report of the own case study has been refused, while the
\* case study has a report of another user
C11_Witness ==
  /\ lastResponse = [op |-> "caseStudies.report", result |-> "BAD_REQUEST"]
  /\ \E row \in BagToSet(reports) : row.caseStudyId \in DOMAIN caseStudies

\* ------------------------------------------------------ delete and update
\* the rows of a table that reference case study c
References(table, c) == {row \in BagToSet(table) : row.caseStudyId = c}

\* C12: when deleteCaseStudy(id) completes, the case study row is gone and
\* no row of favorites or reports references id, also when addFavorite or
\* createReport calls run between its three statements; and no row of
\* favorites or reports ever references a case study that is gone.
C12_DeleteLeavesNoReference ==
  /\ [](\A c \in CaseIds :
          getCaseStudyById(c) = NoRow =>
            References(favorites, c) = {} /\ References(reports, c) = {})
  /\ [][\A r \in InFlight :
          (r.pc = "deleteCaseStudy" /\ Returns(r))
            => /\ getCaseStudyById(r.id)' = NoRow
               /\ References(favorites', r.id) = {}
               /\ References(reports', r.id) = {}]_vars

\* deleteCaseStudy is before its third statement, and a row of favorites or
\* reports for its case study has been inserted since the statement that
\* deleted them
C12_Witness ==
  \E r \in InFlight :
    \/ /\ r.pc \in {"deleteReports", "deleteCaseStudy"}
       /\ References(favorites, r.id) # {}
       /\ getCaseStudyById(r.id) # NoRow
    \/ /\ r.pc = "deleteCaseStudy"
       /\ References(reports, r.id) # {}
       /\ getCaseStudyById(r.id) # NoRow

\* the statements of a delete in flight
DeletePcs == {"deleteFavorites", "deleteReports", "deleteCaseStudy"}

\* a request of procedure op is refused in this step: the case studies, the
\* favorites and the reports stay as they are
RefusedLeavesCases(op) ==
  (/\ rpc' = rpc
   /\ lastResponse'.op = op
   /\ lastResponse'.result \in ErrorResults)
    => UNCHANGED caseVars

\* a case study goes in this step only by the last statement of a delete of
\* its author or of an admin
DeletedByAuthorOrAdmin ==
  \A c \in Listed :
    caseStudies'[c].id = NULL
      => \E r \in InFlight :
           /\ r.pc = "deleteCaseStudy" /\ r.id = c /\ Returns(r)
           /\ (r.role = "admin" \/ caseStudies[c].userId = r.caller)

\* C13: caseStudies.delete goes ahead exactly for the author of the case
\* study and for a caller of role admin, whose case study it need not be;
\* every delete in flight is of such a caller, a case study goes only by
\* the last statement of such a delete, and a refused request leaves the
\* case study, the favorites and the reports as they are.
C13_DeleteByAuthorOrAdmin ==
  /\ [](/\ \A u \in Users, role \in Roles, c \in Listed :
             DeleteChecks(u, role, c) =
               IF caseStudies[c].userId = u \/ role = "admin"
               THEN "ok" ELSE "FORBIDDEN"
        /\ \A r \in InFlight :
             (r.pc \in DeletePcs /\ r.id \in Listed)
               => (r.role = "admin" \/ caseStudies[r.id].userId = r.caller))
  /\ [][DeletedByAuthorOrAdmin]_vars
  /\ [][RefusedLeavesCases("caseStudies.delete")]_vars

\* a delete of a user who is neither the author nor an admin has been
\* refused, and the delete of an admin for a case study of another user is
\* before its last statement
C13_Witness ==
  /\ lastResponse = [op |-> "caseStudies.delete", result |-> "FORBIDDEN"]
  /\ \E r \in InFlight :
       /\ r.pc = "deleteCaseStudy"
       /\ r.role = "admin"
       /\ r.id \in Listed
       /\ caseStudies[r.id].userId # r.caller

\* a case study changes in this step only by the write of an update of its
\* author, and its author stays
UpdatedByAuthor ==
  \A c \in Listed :
    caseStudies'[c] # caseStudies[c]
      => \E r \in InFlight :
           /\ r.pc = "updateCaseStudy" /\ r.id = c /\ Returns(r)
           /\ caseStudies[c].userId = r.caller
           /\ caseStudies'[c].userId = caseStudies[c].userId

\* C14: caseStudies.update goes ahead exactly for the author of the case
\* study, whatever the role: every update in flight is of the author, a
\* field of a case study changes only by the write of an update of its
\* author, and a refused request, that of an admin who is not the author
\* included, leaves every field of every case study unchanged.
C14_UpdateByAuthorOnly ==
  /\ [](/\ \A u \in Users, role \in Roles, c \in Listed :
             UpdateChecks(u, role, c) =
               IF caseStudies[c].userId = u THEN "ok" ELSE "FORBIDDEN"
        /\ \A r \in InFlight :
             (r.pc = "updateCaseStudy" /\ r.id \in Listed)
               => caseStudies[r.id].userId = r.caller)
  /\ [][UpdatedByAuthor]_vars
  /\ [][RefusedLeavesCases("caseStudies.update")]_vars

\* a case study of one user has been updated by its author and one of
\* another user has not, and the last update, of a user who is not the
\* author, has been refused
C14_Witness ==
  /\ lastResponse = [op |-> "caseStudies.update", result |-> "FORBIDDEN"]
  /\ \E c, d \in Listed :
       /\ caseStudies[c].userId # caseStudies[d].userId
       /\ caseStudies[c].title = "edited"
       /\ caseStudies[d].title = "title"

\* C15: a uniqueness violation is reported as a value: for a pair that has
\* its row of favorites, addFavorite returns false, does not throw and
\* leaves the table as it is; for a pair that has its row of reports,
\* createReport returns created false, does not throw and leaves the table
\* as it is.
C15_UniqueViolationIsValue ==
  \A u \in Users, c \in CaseIds :
    /\ Rows(favorites, u, c) > 0
         => addFavorite(u, c) =
              [favorites |-> favorites, returns |-> FALSE, throws |-> FALSE]
    /\ Rows(reports, u, c) > 0
         => createReport([userId |-> u, caseStudyId |-> c]) =
              [reports |-> reports, created |-> FALSE, throws |-> FALSE]

\* a pair has its row of favorites and a pair has its row of reports, so
\* that both calls meet the unique index
C15_Witness ==
  /\ \E u \in Users, c \in CaseIds : Rows(favorites, u, c) = 1
  /\ \E u \in Users, c \in CaseIds : Rows(reports, u, c) = 1

\* ---------------------------------------------------- the database handle
\* the call whose getDb has returned null completes in this step
ReturnsNotAvailable(r) ==
  r.pc = "db" /\ r.db = null /\ Returns(r)

\* no table changes in this step
TablesUnchanged ==
  UNCHANGED <<quests, questAnswers, caseStudies, favorites, reports, users>>

\* every operation whose getDb has returned null returns an empty list,
\* undefined or false, and changes no table
NotAvailableReturnsEmpty ==
  \A r \in InFlight :
    ReturnsNotAvailable(r)
      => /\ lastResponse'.op = r.op
         /\ lastResponse'.result \in {"[]", "undefined", "false"}
         /\ TablesUnchanged

NotAvailableReturnsOrThrows ==
  \A r \in InFlight :
    ReturnsNotAvailable(r)
      => /\ lastResponse'.op = r.op
         /\ lastResponse'.result =
              CASE r.op = "getAllCaseStudies" -> "[]"
                [] r.op = "getCaseStudyById" -> "undefined"
                [] r.op = "isFavorite" -> "false"
                [] r.op \in {"createCaseStudy", "addFavorite"}
                     -> "Error: Database not available"
         /\ TablesUnchanged

C17_MigrationsOnceAndNotFatal ==
  /\ \A m \in Migrations : attempts[m] <= 1
  /\ lastResponse.result # MigrationError
  /\ \A r \in InFlight :
       /\ r.pc \in Migrations => _db = drizzle("D1")
       /\ (r.pc = "db" /\ r.warned) => r.db = drizzle("D1")

\* each migration has been started once, a call has completed, and the
\* getDb of another call, in which a migration has failed, has returned the
\* handle
C17_Witness ==
  /\ \A m \in Migrations : attempts[m] = 1
  /\ lastResponse.op \in Operations
  /\ \E r \in InFlight : r.pc = "db" /\ r.warned /\ r.db = drizzle("D1")

\* ------------------------------------------------------------- listings
\* the ids of a list of rows
Ids(rows) == {rows[i].id : i \in DOMAIN rows}

\* C18: getQuestAnswers(q) returns exactly the answers whose questId is q,
\* each once, in non-decreasing createdAt order; getAllQuests returns every
\* quest, each once, in non-increasing createdAt order.
C18_ListingsOrdered ==
  /\ \A q \in 1 .. MaxRows + 1 :
       LET answers == getQuestAnswers(q) IN
       /\ Ids(answers) = {questAnswers[i].id : i \in
                            {j \in DOMAIN questAnswers :
                               questAnswers[j].questId = q}}
       /\ Cardinality(Ids(answers)) = Len(answers)
       /\ \A i \in DOMAIN answers :
            /\ answers[i] = questAnswers[answers[i].id]
            /\ \A j \in DOMAIN answers :
                 i < j => answers[i].createdAt <= answers[j].createdAt
  /\ LET all == getAllQuests IN
     /\ Ids(all) = {quests[i].id : i \in DOMAIN quests}
     /\ Cardinality(Ids(all)) = Len(all)
     /\ \A i \in DOMAIN all :
          /\ all[i].createdAt = quests[all[i].id].createdAt
          /\ \A j \in DOMAIN all :
               i < j => all[i].createdAt >= all[j].createdAt

\* a quest has two answers of which the later inserted has the earlier
\* createdAt, and the quest has been fetched with its answers
C18_Witness ==
  /\ lastResponse.op = "quests.getById"
  /\ \E i, j \in DOMAIN questAnswers :
       /\ i < j
       /\ questAnswers[i].questId = questAnswers[j].questId
       /\ questAnswers[i].createdAt > questAnswers[j].createdAt

\* ------------------------------------------------------------------ users
\* a call of upsertUser has returned and has changed the table or the
\* response
Upserted ==
  /\ <<users, lastResponse>>' # <<users, lastResponse>>
  /\ lastResponse'.op = "upsertUser"
  /\ lastResponse'.result = undefined

\* the rows of a table of users with the openId
RowsOf(table, openId) == {i \in DOMAIN table : table[i].openId = openId}

\* An upsert for an openId that has a row updates that row, and an upsert
\* for a new openId adds one row; the other rows are left as they are.
UpsertAddsOrUpdates ==
  Upserted =>
    LET user == lastResponse'.user
        rows == RowsOf(users, user.openId)
    IN  /\ \A i \in DOMAIN users :
             i \notin rows => i \in DOMAIN users' /\ users'[i] = users[i]
        /\ IF rows # {}
           THEN /\ Len(users') = Len(users)
                /\ RowsOf(users', user.openId) = rows
                /\ \A k \in DOMAIN user \ {"openId"} :
                     \A i \in rows : users'[i][k] = user[k]
           ELSE /\ Len(users') = Len(users) + 1
                /\ RowsOf(users', user.openId) = {Len(users')}

\* C19: after any sequence of upsertUser calls there is at most one user
\* row per openId: an upsert for an openId that already has a row updates
\* that row instead of adding a second one, and an upsert for a new openId
\* adds exactly one row.
C19_OneRowPerOpenId ==
  /\ [](\A i, j \in DOMAIN users :
          users[i].openId = users[j].openId => i = j)
  /\ [][UpsertAddsOrUpdates]_vars

\* both identities have a row, and the last upsert has changed the name of a
\* row that existed
C19_Witness ==
  /\ Len(users) = 2
  /\ lastResponse.op = "upsertUser"
  /\ lastResponse.result = undefined
  /\ "name" \in DOMAIN lastResponse.user
  /\ \E i \in DOMAIN users :
       /\ users[i].openId = lastResponse.user.openId
       /\ users[i].name = "name"
       /\ users[i].lastSignedIn < clock

\* The owner allow-list as the configuration states it: the ids listed in
\* OWNER_OPEN_IDS, or the id of OWNER_OPEN_ID when none is listed.
AllowList ==
  LET listed == {trim(env.OWNER_OPEN_IDS[i]) :
                   i \in DOMAIN env.OWNER_OPEN_IDS} \ {""}
  IN  IF listed # {} THEN listed ELSE {trim(env.OWNER_OPEN_ID)} \ {""}

\* An upsert without a role leaves an owner with role 'admin' and creates
\* any other user with role 'user'.
UpsertSetsRole ==
  (Upserted /\ "role" \notin DOMAIN lastResponse'.user) =>
    LET user == lastResponse'.user IN
    \A i \in RowsOf(users', user.openId) :
      IF user.openId \in AllowList
      THEN users'[i].role = "admin"
      ELSE RowsOf(users, user.openId) = {} => users'[i].role = "user"

\* C20: a user upserted without an explicit role gets role 'admin' if its
\* openId is in the owner allow-list (OWNER_OPEN_IDS, or OWNER_OPEN_ID when
\* the list is empty) and the default role 'user' when created otherwise; a
\* user stored with role 'user' is promoted to 'admin' by the next upsert
\* once its openId is on the allow-list.
C20_OwnersArePromoted == [][UpsertSetsRole]_vars

\* a user that was created with role 'user', when its openId was not on the
\* allow-list, has been promoted by an upsert without a role
C20_Witness ==
  /\ lastResponse.op = "upsertUser"
  /\ lastResponse.result = undefined
  /\ "role" \notin DOMAIN lastResponse.user
  /\ lastResponse.user.openId \in AllowList
  /\ env.OWNER_OPEN_IDS = <<" ", "b ">>
  /\ \E i \in DOMAIN users :
       /\ users[i].openId = lastResponse.user.openId
       /\ users[i].role = "admin"
       /\ users[i].lastSignedIn < clock

\* ---------------------------------------------------------------- answers
\* every answer is still there, with its quest, its author and its content
AnswersKept ==
  \A i \in DOMAIN questAnswers :
    /\ i \in DOMAIN questAnswers'
    /\ questAnswers'[i].id = questAnswers[i].id
    /\ questAnswers'[i].questId = questAnswers[i].questId
    /\ questAnswers'[i].userId = questAnswers[i].userId
    /\ questAnswers'[i].content = questAnswers[i].content

\* C21: a quest answer is immutable once posted: after createQuestAnswer no
\* answer, close, favorite, report, case-study or profile operation changes
\* the questId, userId or content of the answer, or removes the answer.
C21_AnswersImmutable == [][AnswersKept]_vars

\* an answer has been posted, its quest has been closed, a case study has
\* been deleted, and the last operation was a name update
C21_Witness ==
  /\ Len(questAnswers) = 1
  /\ quests[questAnswers[1].questId].status # "open"
  /\ \E c \in DOMAIN caseStudies : caseStudies[c].id = NULL
  /\ lastResponse.op = "profile.updateName"

\* ----------------------------------------------------------------- counts
\* the sum of f over the set S
RECURSIVE SumOver(_, _)
SumOver(f, S) ==
  IF S = {} THEN 0
  ELSE LET x == CHOOSE y \in S : TRUE IN f[x] + SumOver(f, S \ {x})

\* the report rows that reference the case study
ReportRows(c) ==
  SumOver(reports, {row \in BagToSet(reports) : row.caseStudyId = c})

\* the answers of the quest
AnswerRows(q) ==
  Cardinality({i \in DOMAIN questAnswers : questAnswers[i].questId = q})

\* C22: getAllCaseStudies returns every case study exactly once, each with
\* reportCount equal to the number of report rows that reference it (0 when
\* none), and getAllQuests returns every quest exactly once with answerCount
\* equal to the number of answers of that quest.
C22_ListsCount ==
  /\ LET all == getAllCaseStudies IN
     /\ \A c \in DOMAIN caseStudies :
          caseStudies[c].id # NULL =>
            Cardinality({k \in DOMAIN all : all[k].id = c}) = 1
     /\ \A k \in DOMAIN all :
          /\ all[k].id \in DOMAIN caseStudies
          /\ caseStudies[all[k].id].id = all[k].id
          /\ all[k].reportCount = ReportRows(all[k].id)
  /\ LET all == getAllQuests IN
     /\ \A q \in DOMAIN quests :
          Cardinality({k \in DOMAIN all : all[k].id = q}) = 1
     /\ \A k \in DOMAIN all :
          /\ all[k].id \in DOMAIN quests
          /\ all[k].answerCount = AnswerRows(all[k].id)

\* the case studies have been listed: one has a report and another has none
C22_Witness ==
  /\ lastResponse.op = "caseStudies.list"
  /\ lastResponse.result = getAllCaseStudies
  /\ \E k, l \in DOMAIN lastResponse.result :
       /\ lastResponse.result[k].reportCount = 1
       /\ lastResponse.result[l].reportCount = 0

\* ---------------------------------------------------------------- profile
\* a name update has returned and has changed the table or the response
NameUpdated ==
  /\ <<users, lastResponse>>' # <<users, lastResponse>>
  /\ lastResponse'.op \in {"updateUserName", "profile.updateName"}
  /\ lastResponse'.result = "true"

\* A name update sets the name and updatedAt of the row of the user, keeps
\* the other fields of that row, and keeps every other row.
NameUpdateFrame ==
  NameUpdated =>
    /\ DOMAIN users' = DOMAIN users
    /\ \A i \in DOMAIN users :
         IF users[i].id = lastResponse'.userId
         THEN /\ users'[i].name = lastResponse'.name
              /\ users'[i].updatedAt = clock
              /\ DOMAIN users'[i] = DOMAIN users[i]
              /\ \A k \in DOMAIN users[i] \ {"name", "updatedAt"} :
                   users'[i][k] = users[i][k]
         ELSE users'[i] = users[i]

\* The profile page sends a name update only for its owner and with the
\* trimmed name, which is not empty.
SavedByOwner ==
  (/\ <<users, lastResponse>>' # <<users, lastResponse>>
   /\ lastResponse'.op = "profile.updateName") =>
    /\ userProfile.viewer # 0
    /\ userProfile.viewer = userProfile.userId
    /\ lastResponse'.userId = userProfile.viewer
    /\ lastResponse'.name = trim(userProfile.name)
    /\ lastResponse'.name # ""

\* C23: updateUserName(userId, name) sets the name (and updatedAt) of that
\* user and leaves every other user's row, and that user's role, openId and
\* email, unchanged; the profile page issues the update only when the viewer
\* is the profile's owner and the trimmed name is non-empty.
C23_NameUpdateOwnRowOnly ==
  /\ [][NameUpdateFrame]_vars
  /\ [][SavedByOwner]_vars

\* the owner of a profile has saved a name typed with a blank before it,
\* while another user has a row
C23_Witness ==
  /\ Len(users) = 2
  /\ lastResponse.op = "profile.updateName"
  /\ userProfile.name = " name"
  /\ \E i \in DOMAIN users :
       /\ users[i].id = lastResponse.userId
       /\ users[i].name = "name"
       /\ users[i].role = "admin"
       /\ users[i].email = "mail"
       /\ users[i].updatedAt > users[i].lastSignedIn
       /\ \E j \in DOMAIN users : users[j].updatedAt < users[i].updatedAt

\* ----------------------------------------------------------- quest status
\* type QuestStatus = "open" | "finished" | "suspended" | "unsolved"
QuestStatus == {"open", "finished", "suspended", "unsolved"}

\* what normalizeQuestStatus may be given: a stored status, another string,
\* null or undefined
StatusInputs == StoredStatuses \cup {"other", null, undefined}

\* normalizeQuestStatus returns a current status, maps 'closed' to
\* 'unsolved', leaves the current statuses as they are and is idempotent
NormalizeIsTotal ==
  /\ normalizeQuestStatus("closed") = "unsolved"
  /\ \A status \in StatusInputs :
       /\ normalizeQuestStatus(status) \in QuestStatus
       /\ status \in QuestStatus => normalizeQuestStatus(status) = status
       /\ normalizeQuestStatus(normalizeQuestStatus(status))
            = normalizeQuestStatus(status)

\* a page that has read a quest shows 'closed' as 'unsolved' and every
\* current status as itself
ReadAsCurrent ==
  lastResponse.op = "view" =>
    lastResponse.presented =
      IF lastResponse.status = "closed" THEN "unsolved"
      ELSE lastResponse.status

\* the statements of ensureQuestTables have run without a warning: no
\* stored quest is 'closed' any more
MigrationRewrites ==
  \A r \in InFlight :
    (/\ r.pc = "ensureQuestTables"
     /\ ~r.warned
     /\ r \notin BagToSet(rpc')
     /\ LET r2 == [r EXCEPT !.pc = "db", !.db = _db] IN
          CopiesIn(r2, rpc') > CopiesIn(r2, rpc)) =>
      /\ \A i \in DOMAIN quests' : quests'[i].status # "closed"
      /\ quests' = UpdateClosedToUnsolved(quests)

\* C24: on read a quest status of 'closed' is presented as 'unsolved' and
\* each of 'open', 'finished', 'suspended', 'unsolved' as itself:
\* normalizeQuestStatus always returns one of the four current statuses,
\* maps 'closed' to 'unsolved' and is idempotent; the boot migration
\* rewrites stored 'closed' rows to 'unsolved'.
C24_ClosedReadAsUnsolved ==
  /\ [](NormalizeIsTotal /\ ReadAsCurrent)
  /\ [][MigrationRewrites]_vars

\* C24, for the four-state page alone: what it shows is the status
\* normalized
C24_FourStatePage ==
  /\ [](NormalizeIsTotal)
  /\ [](lastResponse.op = "view" /\ lastResponse.page = "four-state"
          => ReadAsCurrent)
  /\ [][MigrationRewrites]_vars

\* ------------------------------------------------------------ environment
\* a setting that was read last is read again with the same value
ReadsAgree ==
  (/\ lastResponse.op = "ENV"
   /\ lastResponse'.op = "ENV"
   /\ lastResponse'.setting = lastResponse.setting) =>
    lastResponse'.result = lastResponse.result

\* C25: environment settings are read once and never reconfigured at
\* runtime: once a setting of ENV has been read, every later read in the
\* same process returns the same value, whatever initEnv calls or
\* environment changes happen in between.
C25_SettingsReadOnce == [][ReadsAgree]_vars

\* --------------------------------------------------- overlapping getDb
\* C26: whenever getDb returns a non-null database handle to any caller,
\* all three migration routines have finished running: a second caller
\* whose getDb call overlaps the first caller's in-flight migration does
\* not receive the handle before the reports and quest tables have been
\* created.
C26_HandleAfterMigrations ==
  \A r \in InFlight :
    (r.pc = "db" /\ r.db # null) =>
      /\ _avatarColumnEnsured /\ _reportsTableEnsured /\ _questTablesEnsured
      /\ \A r2 \in InFlight : r2.pc \notin Migrations

\* ---- the id a create returns

\* C27: createCaseStudy, createQuest and createQuestAnswer each return as
\* insertId the id of the row that this very call inserted, also when two
\* creates by the same user (for answers, on the same quest) overlap or
\* fall on the same createdAt.
C27_InsertIdIsOwnRow ==
  lastResponse.op \in Creates => lastResponse.insertId = lastResponse.inserted

\* ---- the fields of a quest

\* C28: in every reachable state solvedAnswerId and solverUserId of a quest
\* are non-null only if its status is finished, solvedAnswerId is non-null
\* exactly when solverUserId is, and closedAt is non-null exactly when the
\* status is not open.
C28_QuestFieldsAgree ==
  \A q \in DOMAIN quests :
    /\ (quests[q].solvedAnswerId # NULL \/ quests[q].solverUserId # NULL)
         => quests[q].status = "finished"
    /\ quests[q].solvedAnswerId # NULL <=> quests[q].solverUserId # NULL
    /\ quests[q].closedAt # NULL <=> quests[q].status # "open"

\* one quest was closed as finished with a solver, another without one
C28_Witness ==
  \E q1, q2 \in DOMAIN quests :
    /\ quests[q1].status = "finished"
    /\ quests[q1].solvedAnswerId # NULL /\ quests[q1].solverUserId # NULL
    /\ quests[q1].closedAt # NULL
    /\ quests[q2].status \in {"suspended", "unsolved"}
    /\ quests[q2].solvedAnswerId = NULL /\ quests[q2].solverUserId = NULL
    /\ quests[q2].closedAt # NULL

\* ---- upsertUser and the role of a row that exists

\* An upsert without a role, for an openId that is not an owner's and has a
\* row, leaves the role of the row, and every field of it but those the call
\* gave, or but lastSignedIn when the call gave none.
UpsertKeepsTheRest ==
  (/\ Upserted
   /\ "role" \notin DOMAIN lastResponse'.user
   /\ lastResponse'.user.openId \notin AllowList
   /\ RowsOf(users, lastResponse'.user.openId) # {}) =>
    LET user == lastResponse'.user
        supplied == DOMAIN user \ {"openId"}
        written == IF supplied = {} THEN {"lastSignedIn"} ELSE supplied
    IN  \A i \in RowsOf(users, user.openId) :
          /\ users'[i].role = users[i].role
          /\ DOMAIN users'[i] = DOMAIN users[i]
          /\ \A k \in DOMAIN users[i] \ written : users'[i][k] = users[i][k]

\* C29: upsertUser never demotes: an upsert that carries no role, for an
\* openId that is not on the owner allow-list, leaves the role of an existing
\* row unchanged (an admin stays admin), and changes only the fields that the
\* call supplied, plus lastSignedIn when nothing else was supplied.
C29_UpsertNeverDemotes == [][UpsertKeepsTheRest]_vars

\* an admin who is not an owner has signed in again, with a name and no role,
\* after the row was made
C29_Witness ==
  /\ lastResponse.op = "upsertUser"
  /\ lastResponse.result = undefined
  /\ DOMAIN lastResponse.user = {"openId", "name"}
  /\ lastResponse.user.openId \notin AllowList
  /\ \E i \in DOMAIN users :
       /\ users[i].openId = lastResponse.user.openId
       /\ users[i].role = "admin"
       /\ users[i].name = lastResponse.user.name
       /\ users[i].updatedAt < clock

\* ---- the binding of the handle

\* C30: the migrations run against the binding that queries run against:
\* after any sequence of initDb calls with non-null bindings, the binding in
\* _dbBinding is the binding the cached _db was built from.
C30_MigrationsOnBindingOfHandle ==
  _db # null => _dbBinding = client(_db)

\* C30, its last part: _db, once set, is never replaced.
HandleKept == _db # null => _db' = _db
C30_HandleNeverReplaced == [][HandleKept]_vars

====
